---- MODULE Spec2Model ----
(***************************************************************************)
(* Verification model of the Antigravity gateway core:                     *)
(*   - AntigravityOAuthRotator  (src/src/antigravity/oauth-rotator.ts)     *)
(*   - AntigravityApiClient     (src/unnamed/part_002, client.ts)          *)
(* Every await of the source is a separate step, so that the interleavings *)
(* of concurrently running requests, timers and watchers are explored.     *)
(***************************************************************************)
EXTENDS Integers, Sequences, FiniteSets, TLC

(***************************************************************************)
(* Bounds of the model.                                                    *)
(***************************************************************************)
NumFiles == 2
NumCallers == 2
MaxTicks == 1
MaxEvents == 1
MaxFetches == 3
MaxBurst == 2
MaxPrefix == 2
MaxOk == 3
MaxDays == 1

(***************************************************************************)
(* Program constants.                                                      *)
(***************************************************************************)
DefaultResetTimezoneOffset == 0 - 8
DefaultResetHour == 0
HoursPerDay == 24

\* The model's clock starts one hour before midnight of the reset timezone.
StartNow == HoursPerDay + 7

Files == 1..NumFiles
Callers == 1..NumCallers
NoPath == 0

\* ANTIGRAVITY_ENDPOINT_FALLBACKS, ANTIGRAVITY_ENDPOINT_PROD, ANTIGRAVITY_LOAD_ENDPOINTS
EndpointFallbacks == <<"daily", "autopush", "prod">>
EndpointProd == "prod"
LoadEndpoints == <<"prod", "daily", "autopush">>

\* Project ids: null, the configured one, the default, or one discovered
\* with the credentials of an account.
NullProject == <<"null", 0>>
ConfiguredProject == <<"configured", 0>>
DefaultProjectId == <<"rising-fact-p41fc", 0>>
DiscoveredProject(account) == <<"discovered", account>>

\* What a fetch of a chat endpoint can end with: an HTTP status, the abort
\* of AbortSignal.timeout, or another network failure.
Statuses == {200, 400, 403, 429, 500, 504}
FetchTimeout == 1
FetchFailed == 2
FetchOutcomes == Statuses \cup {FetchTimeout, FetchFailed}

\* What a fetch of loadCodeAssist can end with.
DiscoveryResponses == {"string", "object", "noid", "notok", "throws"}
TokenOutcomes == {"token", "none", "throws"}

\* The host's own timezone offsets (hours east of UTC) the model considers.
SystemOffsets == {0 - 8, 0}

\* What a read of a credential file can find.
CredentialFields == {"access_token", "refresh_token", "client_id", "client_secret"}
FileContents ==
    { [readable |-> FALSE, fields |-> {}],
      [readable |-> TRUE,  fields |-> {}],
      [readable |-> TRUE,  fields |-> {"refresh_token"}],
      [readable |-> TRUE,  fields |-> CredentialFields] }

VARIABLES
    \* ---- AntigravityOAuthRotator fields
    credentialFilePaths,    \* ordered pool (sequence of file ids)
    currentIndex,           \* 0-based
    isEnabled,
    allAccountsExhausted,
    rotationInProgress,
    rotationPromise,        \* TRUE when a promise is stored, FALSE for null
    folderWatcher,          \* TRUE while an fs watcher is installed
    refreshDebounceTimer,   \* TRUE while the debounce timer is armed
    lastResetTime,          \* hours since the epoch (UTC)
    \* ---- performRotation in flight
    rot,                    \* [phase, target]
    refreshReading,         \* the debounced callback awaits readdir
    \* ---- environment
    now,                    \* hours since the epoch (UTC)
    systemOffset,           \* the host's timezone offset
    dirFiles,               \* the .json files of the watched folder
    canonical,              \* account whose credentials the canonical file holds
    canonWriters,           \* writes to the canonical file now in progress
    \* ---- callers of rotateCredentials
    pc,
    rotRes,                 \* what the caller's rotateCredentials() resolved to
    \* ---- AntigravityApiClient fields
    projectId,
    projectIdPromise,       \* TRUE when a promise is stored, FALSE for null
    currentEndpointIndex,
    googleCloudProject,
    authCred,               \* account whose credentials authClient holds
    disc,                   \* the discovery in flight: [phase, k, cred, resp]
    \* ---- requests (makeRequest / streamContent invocations)
    mode,                   \* "send" (makeRequest) | "stream" (streamContent)
    premium,                \* isAntigravityModel
    stack,                  \* the nested invocations, outermost first
    discRes,                \* what the caller's discoverProjectId() resolved to
    reqProject,             \* body.project
    evWrite,                \* the 'tokens' handler started by the caller's refresh
    res,                    \* what the caller of send/streamSend got
    delivered,              \* stream events yielded to the caller, by attempt
    fetches,                \* upstream calls answered so far, per request
    \* ---- history (observation only)
    grp,                    \* the rotation in flight: advances, copies
    hist,                   \* completed rotations since the last reset
    lastObs,                \* the last upstream response a request observed
    thrown,                 \* the error the innermost failing invocation threw
    did,                    \* steps taken since the request called rotate
    discInFlight,           \* discovery operations started and not yet settled
    served,                 \* how the caller's discoverProjectId() was answered
    \* ---- parseSSEStream: one response body being decoded
    sse,                    \* [phase, lines, terminated, payload, pos, cuts,
                            \*  buffer, objectBuffer, out]
    \* ---- streamContent: the chunks of the responses a client streams
    firstChunk,             \* AntigravityApiClient.firstChunk
    lastThoughtSignature,   \* _lastThoughtSignature: a token, or undefined
    resp,                   \* per response: the loop's locals and its chunks
    \* ---- AutoModelSwitchingHelper
    cooldownState,          \* model -> [codes, ttl], ttl 0 once expired
    fbRes,                  \* the last call of the helper and its result
    sinceAdd,               \* ticks since the model was last added (history)
    fbCall,                 \* the fallback handler call in flight or finished
    \* ---- the folder watcher's bursts (history)
    burst,                  \* events pending, events served, pool replaced
    \* ---- the request mapper (openai-mapper.ts): its last call and the result,
    \*      one variable per function, the other two cleared
    gen,                    \* mapOpenAIToAntigravity: generationConfig
    schemaCall,             \* transformSchema
    nameCall,               \* sanitizeFunctionName
    \* ---- the streaming route (paths.ts)
    departed,               \* TRUE once the caller of the streamed response left
    \* ---- the request ledger (incrementRequestCount)
    ledger,                 \* the counts file: absent, corrupt, or its JSON
    inc,                    \* per request: the increment it started
    answered,               \* per request: what send/streamSend gave its caller
    today,                  \* new Date().toDateString()
    tally,                  \* 2xx responses per account, failures seen (history)
    \* ---- the retry chain of a request (history)
    rotations,              \* rotateCredentials() calls of the request so far
    \* ---- the continuity token on its way into the next request
    lastReturned,           \* the last signed part the upstream returned (history)
    outbound                \* per caller: the request the route mapped

rotatorVars == <<credentialFilePaths, currentIndex, isEnabled, allAccountsExhausted,
                 rotationInProgress, rotationPromise, folderWatcher,
                 refreshDebounceTimer, lastResetTime, rot, refreshReading>>
envVars == <<now, systemOffset, dirFiles, canonical, canonWriters>>
callerVars == <<pc, rotRes>>
histVars == <<grp, hist>>
clientVars == <<projectId, projectIdPromise, currentEndpointIndex, googleCloudProject,
                authCred, disc>>
requestVars ==
    <<mode, premium, stack, discRes, reqProject, evWrite, res, delivered, fetches>>
obsVars == <<lastObs, thrown, did, discInFlight, served>>
decoderVars == <<sse>>
chunkVars == <<firstChunk, lastThoughtSignature, resp>>
fallbackVars == <<cooldownState, fbRes, sinceAdd, fbCall>>
watchVars == <<burst>>
mapperVars == <<gen, schemaCall, nameCall>>
routeVars == <<departed>>
ledgerVars == <<ledger, inc, answered, today, tally>>
retryVars == <<rotations>>
sessionVars == <<lastReturned, outbound>>
layerVars ==
    <<decoderVars, chunkVars, fallbackVars, watchVars, mapperVars, routeVars, ledgerVars,
      retryVars, sessionVars>>
vars == <<rotatorVars, envVars, callerVars, histVars, clientVars, requestVars, obsVars,
          layerVars>>

(***************************************************************************)
(* Helpers.                                                                *)
(***************************************************************************)
RECURSIVE SortedSeq(_)
SortedSeq(S) ==
    IF S = {} THEN <<>>
    ELSE LET m == CHOOSE x \in S : \A y \in S : x <= y
         IN <<m>> \o SortedSeq(S \ {m})

Range(s) == { s[k] : k \in 1..Len(s) }

\* fs.readdir + filter(.json) + map(path.join): the listing of the folder.
JsonFiles(dir) == SortedSeq(dir)

\* Explicit path lists handed to initialize().
PathLists == { SortedSeq(1..k) : k \in 0..NumFiles }

PathOutcome(p) == [kind |-> "path", path |-> p]
NullOutcome == [kind |-> "null", path |-> NoPath]
ErrorOutcome == [kind |-> "error", path |-> NoPath]
NoOutcome == [kind |-> "none", path |-> NoPath]

IdleRot == [phase |-> "idle", target |-> NoPath]
IdleDisc == [phase |-> "idle", k |-> 0, cred |-> NoPath, resp |-> "none"]
StartedDisc == [phase |-> "token", k |-> 0, cred |-> NoPath, resp |-> "none"]

\* Results and errors of a request.  An AntigravityApiError carries the
\* status, the response text and the endpoint; the response text is
\* identified by the attempt that received it.
NoBody == <<>>
NoResult == [kind |-> "none", status |-> 0, body |-> NoBody, endpoint |-> "none"]
ApiError(status, body, endpoint) ==
    [kind |-> "api", status |-> status, body |-> body, endpoint |-> endpoint]
OtherError == [kind |-> "other", status |-> 0, body |-> NoBody, endpoint |-> "none"]
OkResult(body, endpoint) ==
    [kind |-> "ok", status |-> 200, body |-> body, endpoint |-> endpoint]
IdleGrp == [advances |-> 0, copies |-> 0, clean |-> TRUE, idxBefore |-> 0, setExh |-> FALSE]

\* parseSSEStream before a response body is opened.
IdleSse ==
    [phase |-> "idle", lines |-> <<>>, terminated |-> TRUE, payload |-> <<>>, pos |-> 0,
     cuts |-> {}, buffer |-> <<>>, objectBuffer |-> <<>>, out |-> <<>>]

\* A count missing from usageMetadata (undefined).
Absent == 0 - 1
\* The last usageMetadata a response carried: none yet.
NoMeta == [promptTokenCount |-> Absent, candidatesTokenCount |-> Absent,
           thoughtsTokenCount |-> Absent]
\* streamContent: usageData while no usageMetadata has been seen (undefined).
NoUsage == [reported |-> FALSE, prompt_tokens |-> 0, completion_tokens |-> 0,
            total_tokens |-> 0]
\* streamContent: the locals of a response that is not being streamed.
IdleResp == [phase |-> "idle", toolCallId |-> FALSE, usageData |-> NoUsage,
             reasoningTokens |-> 0, chunks |-> <<>>,
             usageMetadata |-> NoMeta,
             signatureAtEnd |-> FALSE,
             arrived |-> <<>>, queue |-> <<>>, sent |-> <<>>]

\* The fallback table: gemini-2.5-pro -> gemini-2.5-flash -> gemini-2.5-flash-lite;
\* any other model has no entry.
Models == {"gemini-2.5-pro", "gemini-2.5-flash", "gemini-2.5-flash-lite", "unknown-model"}
NoModel == "null"
RateLimitCodes == {429, 503}
NoCooldown == [codes |-> {}, ttl |-> 0]
\* The fixed time a cooldown lasts, in ticks of the clock.
CooldownTtl == 1
\* A model added at least a full cooldown ago; a model never added.
LongAgo == CooldownTtl
NeverAdded == CooldownTtl + 1
\* handleNonStreamingFallback / handleStreamingFallback: no call yet.
NoNotification == <<>>
NoHandler == [phase |-> "idle", streaming |-> FALSE, model |-> NoModel, code |-> 0,
              retries |-> 0, retryModel |-> NoModel, bodyModel |-> NoModel,
              cooledAtRetry |-> FALSE, forwarded |-> 0, outcome |-> "none",
              notification |-> NoNotification]
\* Account ids of the ledger: the file stem of the current path, "default"
\* (written as NoPath) when the rotator gives no path.
Accounts == Files \cup {NoPath}
\* Thought signatures: opaque tokens of the upstream; undefined for none.
NoSignature == "undefined"
Signatures == {"sig1", "sig2"}
PartSignatures == Signatures \cup {NoSignature}
\* A part with a signature, or without one.
SignedOrNot == {"sig1", NoSignature}
\* SKIP_THOUGHT_SIGNATURE
SkipThoughtSignature == "skip_thought_signature_validator"
NoReturned == [signature |-> NoSignature, kind |-> "none"]
NoOutbound == [phase |-> "none", reasoning |-> "absent", toolCall |-> "absent"]

NoCounts == [a \in Accounts |-> 0]
\* The counts file does not exist / does not parse / holds counts.
AbsentLedger == [state |-> "absent", lastReset |-> 0, requests |-> NoCounts]
CorruptLedger == [state |-> "corrupt", lastReset |-> 0, requests |-> NoCounts]
NoIncrement == [phase |-> "idle", account |-> NoPath, lastReset |-> 0, requests |-> NoCounts]
NoTally == [ok |-> NoCounts, failed |-> FALSE, days |-> FALSE]
\* The mapper has not been called.
NoGen == [called |-> FALSE]
NoSchemaCall == [called |-> FALSE]
NoNameCall == [called |-> FALSE]
\* No folder event seen yet.
NoBurst == [events |-> 0, fired |-> 0, replaced |-> FALSE]
NoCall == [op |-> "none", model |-> NoModel, explicit |-> FALSE, cooled |-> {},
           result |-> NoModel, answer |-> FALSE]

(***************************************************************************)
(* shouldResetIndex: the clock readings it compares.                       *)
(***************************************************************************)
\* localNow = now shifted to UTC and then by resetTimezoneOffset.
CurrentHour == (now + DefaultResetTimezoneOffset) % HoursPerDay
CurrentDay == (now + DefaultResetTimezoneOffset) \div HoursPerDay
\* new Date(lastResetTime).getDate()/getMonth()/getFullYear(): host-local.
LastResetDay == (lastResetTime + systemOffset) \div HoursPerDay

ShouldResetIndex == CurrentHour = DefaultResetHour /\ CurrentDay # LastResetDay

\* One record is enough.
isRotationEnabledWithOne == isEnabled /\ Len(credentialFilePaths) > 0
\* isRotationEnabled()
isRotationEnabled == isEnabled /\ Len(credentialFilePaths) > 1

getAccountCount == Len(credentialFilePaths)

getCurrentAccountPath ==
    IF ~isEnabled \/ Len(credentialFilePaths) = 0 THEN NoPath
    ELSE credentialFilePaths[currentIndex + 1]

\* Any file that can be read passes.
validateCredentialFileReadableOnly(content) == content.readable
\* validateCredentialFile: readable, parses, and has one of the four fields.
validateCredentialFile(content) == content.readable /\ content.fields # {}

\* rotateCredentials: a call made while a rotation is in flight joins it.
JoinsInFlightNever == FALSE
JoinsInFlight == rotationInProgress /\ rotationPromise

\* performRotation: the index the rotation moves to.
NextIndexNoWrap(idx, n) == IF idx + 1 < n THEN idx + 1 ELSE idx
NextIndex(idx, n) == (idx + 1) % n

(***************************************************************************)
(* Initial state: the singleton as constructed, nothing configured.        *)
(***************************************************************************)
Init ==
    /\ credentialFilePaths = <<>>
    /\ currentIndex = 0
    /\ isEnabled = FALSE
    /\ allAccountsExhausted = FALSE
    /\ rotationInProgress = FALSE
    /\ rotationPromise = FALSE
    /\ folderWatcher = FALSE
    /\ refreshDebounceTimer = FALSE
    /\ now = StartNow
    /\ lastResetTime = StartNow
    /\ rot = IdleRot
    /\ refreshReading = FALSE
    /\ systemOffset \in SystemOffsets
    /\ dirFiles = {}
    /\ canonical = NoPath
    /\ canonWriters = {}
    /\ pc = [c \in Callers |-> "idle"]
    /\ rotRes = [c \in Callers |-> NoOutcome]
    /\ grp = IdleGrp
    /\ hist = <<>>
    \* the client as constructed: discoverProjectId() was started eagerly
    /\ googleCloudProject \in {NullProject, ConfiguredProject}
    /\ projectId = NullProject
    /\ projectIdPromise = (googleCloudProject = NullProject)
    /\ disc = IF googleCloudProject = NullProject
              THEN StartedDisc
              ELSE IdleDisc
    /\ discInFlight = IF googleCloudProject = NullProject THEN 1 ELSE 0
    /\ served = [c \in Callers |-> "none"]
    /\ currentEndpointIndex = 0
    /\ authCred = NoPath
    /\ mode = [c \in Callers |-> "send"]
    /\ premium = [c \in Callers |-> FALSE]
    /\ stack = [c \in Callers |-> <<>>]
    /\ discRes = [c \in Callers |-> NullProject]
    /\ reqProject = [c \in Callers |-> NullProject]
    /\ evWrite = [c \in Callers |-> "none"]
    /\ res = [c \in Callers |-> NoResult]
    /\ delivered = [c \in Callers |-> <<>>]
    /\ fetches = [c \in Callers |-> 0]
    /\ lastObs = [c \in Callers |-> NoResult]
    /\ thrown = [c \in Callers |-> NoResult]
    /\ did = [c \in Callers |-> {}]
    /\ sse = IdleSse
    /\ firstChunk = TRUE
    /\ lastThoughtSignature = NoSignature
    /\ resp = [c \in Callers |-> IdleResp]
    /\ cooldownState = [m \in Models |-> NoCooldown]
    /\ fbRes = NoCall
    /\ sinceAdd = [m \in Models |-> NeverAdded]
    /\ fbCall = NoHandler
    /\ burst = NoBurst
    /\ gen = NoGen
    /\ schemaCall = NoSchemaCall
    /\ nameCall = NoNameCall
    /\ departed = FALSE
    /\ ledger = AbsentLedger
    /\ inc = [c \in Callers |-> NoIncrement]
    /\ answered = [c \in Callers |-> "none"]
    /\ today = 0
    /\ tally = NoTally
    /\ rotations = [r \in Callers |-> 0]
    /\ lastReturned = NoReturned
    /\ outbound = [r \in Callers |-> NoOutbound]

\* Configuration happens once, at start-up, before any request is served.
Unconfigured == ~isEnabled /\ credentialFilePaths = <<>> /\ ~folderWatcher

\* A reset of the rotator's position ends the run of consecutive rotations.
HistReset ==
    /\ hist' = <<>>
    /\ grp' = [grp EXCEPT !.clean = FALSE]

(***************************************************************************)
(* initialize(paths)                                                       *)
(***************************************************************************)
Initialize(paths) ==
    /\ Unconfigured
    /\ IF Len(paths) = 0
       THEN /\ isEnabled' = FALSE
            /\ UNCHANGED <<credentialFilePaths, currentIndex, folderWatcher,
                           refreshDebounceTimer, hist, grp>>
       ELSE /\ folderWatcher' = FALSE          \* stopFolderWatcher
            /\ refreshDebounceTimer' = FALSE
            /\ credentialFilePaths' = paths
            /\ currentIndex' = 0
            /\ isEnabled' = TRUE
            /\ HistReset
    /\ UNCHANGED <<allAccountsExhausted, rotationInProgress, rotationPromise,
                   lastResetTime, rot, refreshReading, envVars, callerVars>>
    /\ UNCHANGED <<clientVars, requestVars, obsVars>>
    /\ UNCHANGED layerVars

(***************************************************************************)
(* initializeWithFolder(folderPath), run at start-up: readdir, set the     *)
(* pool, copyFirstCredentialToCache, startFolderWatcher.                   *)
(***************************************************************************)
InitializeWithFolder(listing) ==
    /\ Unconfigured
    /\ dirFiles' = listing
    /\ IF listing = {}
       THEN /\ isEnabled' = FALSE
            /\ folderWatcher' = FALSE
            /\ refreshDebounceTimer' = FALSE
            /\ UNCHANGED <<credentialFilePaths, currentIndex, canonical, hist, grp>>
       ELSE /\ credentialFilePaths' = JsonFiles(listing)
            /\ currentIndex' = 0
            /\ isEnabled' = TRUE
            /\ canonical' = JsonFiles(listing)[1]
            /\ folderWatcher' = TRUE
            /\ refreshDebounceTimer' = FALSE
            /\ HistReset
    /\ UNCHANGED <<allAccountsExhausted, rotationInProgress, rotationPromise,
                   lastResetTime, rot, refreshReading, now, systemOffset,
                   canonWriters, callerVars>>
    /\ UNCHANGED <<clientVars, requestVars, obsVars>>
    /\ UNCHANGED layerVars

(***************************************************************************)
(* The watched folder: a file appears or disappears; the watcher's         *)
(* callback (rename event on a .json name) runs handleFolderChange, which  *)
(* re-arms the debounce timer.                                             *)
(***************************************************************************)
\* Without the debounce: the event itself starts the recomputation.
FolderEventUndebounced(f) ==
    /\ folderWatcher
    /\ dirFiles' = IF f \in dirFiles THEN dirFiles \ {f} ELSE dirFiles \cup {f}
    /\ refreshReading' = TRUE
    /\ UNCHANGED <<credentialFilePaths, currentIndex, isEnabled, allAccountsExhausted,
                   rotationInProgress, rotationPromise, folderWatcher, lastResetTime,
                   rot, refreshDebounceTimer, now, systemOffset, canonical, canonWriters,
                   callerVars, histVars>>
    /\ UNCHANGED <<clientVars, requestVars, obsVars>>
    /\ burst' = [burst EXCEPT !.events = IF @ < MaxBurst THEN @ + 1 ELSE @]
    /\ UNCHANGED <<decoderVars, chunkVars, fallbackVars, mapperVars, routeVars, ledgerVars, retryVars, sessionVars>>

\* handleFolderChange, called by the watcher on a rename of a .json name.
FolderEvent(f) ==
    /\ folderWatcher
    /\ dirFiles' = IF f \in dirFiles THEN dirFiles \ {f} ELSE dirFiles \cup {f}
    /\ refreshDebounceTimer' = TRUE
    /\ UNCHANGED <<credentialFilePaths, currentIndex, isEnabled, allAccountsExhausted,
                   rotationInProgress, rotationPromise, folderWatcher, lastResetTime,
                   rot, refreshReading, now, systemOffset, canonical, canonWriters,
                   callerVars, histVars>>
    /\ UNCHANGED <<clientVars, requestVars, obsVars>>
    /\ burst' = [burst EXCEPT !.events = IF @ < MaxBurst THEN @ + 1 ELSE @]
    /\ UNCHANGED <<decoderVars, chunkVars, fallbackVars, mapperVars, routeVars, ledgerVars, retryVars, sessionVars>>

\* The debounce window elapsed: the timer callback starts and awaits readdir.
DebounceFire ==
    /\ refreshDebounceTimer
    /\ refreshDebounceTimer' = FALSE
    /\ refreshReading' = TRUE
    /\ UNCHANGED <<credentialFilePaths, currentIndex, isEnabled, allAccountsExhausted,
                   rotationInProgress, rotationPromise, folderWatcher, lastResetTime,
                   rot, envVars, callerVars, histVars>>
    /\ UNCHANGED <<clientVars, requestVars, obsVars>>
    /\ burst' = [burst EXCEPT !.events = 0, !.fired = burst.events]
    /\ UNCHANGED <<decoderVars, chunkVars, fallbackVars, mapperVars, routeVars, ledgerVars, retryVars, sessionVars>>

\* The pool is replaced and the index kept.
FolderRefreshKeepsIndex ==
    /\ refreshReading
    /\ refreshReading' = FALSE
    /\ LET jsonFiles == JsonFiles(dirFiles)
           newFiles == dirFiles \ Range(credentialFilePaths)
           removedFiles == Range(credentialFilePaths) \ dirFiles
       IN IF newFiles # {} \/ removedFiles # {}
          THEN /\ credentialFilePaths' = jsonFiles
               /\ currentIndex' = currentIndex
               /\ allAccountsExhausted' = FALSE
               /\ HistReset
          ELSE UNCHANGED <<credentialFilePaths, currentIndex, allAccountsExhausted,
                           histVars>>
    /\ UNCHANGED <<isEnabled, rotationInProgress, rotationPromise, folderWatcher,
                   refreshDebounceTimer, lastResetTime, rot, envVars, callerVars>>
    /\ UNCHANGED <<clientVars, requestVars, obsVars>>
    /\ burst' = [burst EXCEPT !.replaced = Range(credentialFilePaths) # dirFiles]
    /\ UNCHANGED <<decoderVars, chunkVars, fallbackVars, mapperVars, routeVars, ledgerVars, retryVars, sessionVars>>

\* readdir answered: compare with the pool and replace it on any difference.
FolderRefresh ==
    /\ refreshReading
    /\ refreshReading' = FALSE
    /\ LET jsonFiles == JsonFiles(dirFiles)
           newFiles == dirFiles \ Range(credentialFilePaths)
           removedFiles == Range(credentialFilePaths) \ dirFiles
       IN IF newFiles # {} \/ removedFiles # {}
          THEN /\ credentialFilePaths' = jsonFiles
               /\ currentIndex' = 0
               /\ allAccountsExhausted' = FALSE
               /\ HistReset
          ELSE UNCHANGED <<credentialFilePaths, currentIndex, allAccountsExhausted,
                           histVars>>
    /\ UNCHANGED <<isEnabled, rotationInProgress, rotationPromise, folderWatcher,
                   refreshDebounceTimer, lastResetTime, rot, envVars, callerVars>>
    /\ UNCHANGED <<clientVars, requestVars, obsVars>>
    /\ burst' = [burst EXCEPT !.replaced = Range(credentialFilePaths) # dirFiles]
    /\ UNCHANGED <<decoderVars, chunkVars, fallbackVars, mapperVars, routeVars, ledgerVars, retryVars, sessionVars>>

\* An hour passes.
Tick ==
    /\ now < StartNow + MaxTicks
    /\ now' = now + 1
    /\ UNCHANGED <<rotatorVars, systemOffset, dirFiles, canonical, canonWriters,
                   callerVars, histVars>>
    /\ UNCHANGED <<clientVars, requestVars, obsVars>>
    /\ UNCHANGED layerVars

(***************************************************************************)
(* rotateCredentials(), up to its first await.  The rotator part of the    *)
(* call; the caller's own position is set by the calling action.           *)
(*   - rotation disabled: resolves to null;                                *)
(*   - shouldResetIndex();                                                 *)
(*   - a rotation in flight: the caller awaits the stored promise;         *)
(*   - otherwise performRotation() runs to its first await: exhaustion     *)
(*     cleared if set, index advanced, exhaustion set when it wraps.       *)
(***************************************************************************)
RotateCredentialsCall(c) ==
    IF ~isRotationEnabled
    THEN /\ rotRes' = [rotRes EXCEPT ![c] = NullOutcome]
         /\ UNCHANGED <<rotatorVars, histVars>>
    ELSE LET reset == ShouldResetIndex
             idx0 == IF reset THEN 0 ELSE currentIndex
             exh0 == IF reset THEN FALSE ELSE allAccountsExhausted
             n == Len(credentialFilePaths)
             idx1 == NextIndex(idx0, n)
             exh1 == IF idx1 = 0 THEN TRUE ELSE FALSE
         IN /\ lastResetTime' = IF reset THEN now ELSE lastResetTime
            /\ rotRes' = [rotRes EXCEPT ![c] = NoOutcome]
            /\ IF JoinsInFlight
               THEN /\ currentIndex' = idx0
                    /\ allAccountsExhausted' = exh0
                    /\ IF reset THEN HistReset ELSE UNCHANGED histVars
                    /\ UNCHANGED <<rotationInProgress, rotationPromise, rot>>
               ELSE /\ rotationInProgress' = TRUE
                    /\ rotationPromise' = TRUE
                    /\ currentIndex' = idx1
                    /\ allAccountsExhausted' = exh1
                    /\ rot' = [phase |-> "validate",
                               target |-> credentialFilePaths[idx1 + 1]]
                    /\ grp' = [advances |-> IF rot.phase = "idle" THEN 1
                                            ELSE grp.advances + 1,
                               copies |-> IF rot.phase = "idle" THEN 0 ELSE grp.copies,
                               clean |-> rot.phase = "idle",
                               idxBefore |-> idx0,
                               setExh |-> exh1]
                    /\ hist' = IF reset THEN <<>> ELSE hist
            /\ UNCHANGED <<credentialFilePaths, isEnabled, folderWatcher,
                           refreshDebounceTimer, refreshReading>>

\* A caller invokes rotateCredentials() directly.
CallRotate(c) ==
    /\ pc[c] = "idle"
    /\ RotateCredentialsCall(c)
    /\ pc' = [pc EXCEPT ![c] = IF rotRes'[c].kind = "null" THEN "rotated" ELSE "rotWait"]
    /\ UNCHANGED envVars
    /\ UNCHANGED <<clientVars, requestVars, obsVars>>
    /\ UNCHANGED layerVars

\* The caller takes the value its call resolved to.
RotateReturn(c) ==
    /\ pc[c] = "rotated"
    /\ stack[c] = <<>>
    /\ pc' = [pc EXCEPT ![c] = "idle"]
    /\ rotRes' = [rotRes EXCEPT ![c] = NoOutcome]
    /\ UNCHANGED <<rotatorVars, envVars, histVars>>
    /\ UNCHANGED <<clientVars, requestVars, obsVars>>
    /\ UNCHANGED layerVars

(***************************************************************************)
(* The promise of performRotation settles: every caller awaiting it gets   *)
(* the outcome, and the initiator's finally clears the single-flight       *)
(* fields.                                                                 *)
(***************************************************************************)
Settle(outcome) ==
    /\ pc' = [c \in Callers |-> IF pc[c] = "rotWait" THEN "rotated" ELSE pc[c]]
    /\ rotRes' = [c \in Callers |-> IF pc[c] = "rotWait" THEN outcome ELSE rotRes[c]]
    /\ rotationInProgress' = FALSE
    /\ rotationPromise' = FALSE
    /\ rot' = IdleRot
    /\ hist' = IF outcome.kind = "path" /\ grp.clean
               THEN LET e == [ret |-> outcome.path, idxBefore |-> grp.idxBefore,
                              setExh |-> grp.setExh]
                        h == Append(hist, e)
                    IN IF Len(h) > Len(credentialFilePaths) THEN Tail(h) ELSE h
               ELSE <<>>

\* await validateCredentialFile(newCredentialPath)
RotValidate(content) ==
    /\ rot.phase = "validate"
    /\ IF validateCredentialFile(content)
       THEN /\ rot' = [rot EXCEPT !.phase = "read"]
            /\ UNCHANGED <<rotationInProgress, rotationPromise, callerVars, hist>>
       ELSE Settle(ErrorOutcome)
    /\ UNCHANGED <<credentialFilePaths, currentIndex, isEnabled, allAccountsExhausted,
                   folderWatcher, refreshDebounceTimer, lastResetTime, refreshReading,
                   envVars, grp>>
    /\ UNCHANGED <<clientVars, requestVars, obsVars>>
    /\ UNCHANGED layerVars

\* await fs.readFile(newCredentialPath)
RotRead(readable) ==
    /\ rot.phase = "read"
    /\ IF readable
       THEN /\ rot' = [rot EXCEPT !.phase = "mkdir"]
            /\ UNCHANGED <<rotationInProgress, rotationPromise, callerVars, hist>>
       ELSE Settle(ErrorOutcome)
    /\ UNCHANGED <<credentialFilePaths, currentIndex, isEnabled, allAccountsExhausted,
                   folderWatcher, refreshDebounceTimer, lastResetTime, refreshReading,
                   envVars, grp>>
    /\ UNCHANGED <<clientVars, requestVars, obsVars>>
    /\ UNCHANGED layerVars

\* await fs.mkdir(...) done; fs.writeFile(defaultCredentialPath, ...) begins.
RotWriteStart ==
    /\ rot.phase = "mkdir"
    /\ rot' = [rot EXCEPT !.phase = "writing"]
    /\ canonWriters' = canonWriters \cup {<<"rotation", 0>>}
    /\ grp' = [grp EXCEPT !.copies = @ + 1]
    /\ UNCHANGED <<credentialFilePaths, currentIndex, isEnabled, allAccountsExhausted,
                   rotationInProgress, rotationPromise, folderWatcher,
                   refreshDebounceTimer, lastResetTime, refreshReading,
                   now, systemOffset, dirFiles, canonical, callerVars, hist>>
    /\ UNCHANGED <<clientVars, requestVars, obsVars>>
    /\ UNCHANGED layerVars

\* fs.writeFile done; performRotation returns newCredentialPath.
RotWriteDone ==
    /\ rot.phase = "writing"
    /\ canonWriters' = canonWriters \ {<<"rotation", 0>>}
    /\ canonical' = rot.target
    /\ Settle(PathOutcome(rot.target))
    /\ UNCHANGED <<credentialFilePaths, currentIndex, isEnabled, allAccountsExhausted,
                   folderWatcher, refreshDebounceTimer, lastResetTime, refreshReading,
                   now, systemOffset, dirFiles, grp>>
    /\ UNCHANGED <<clientVars, requestVars, obsVars>>
    /\ UNCHANGED layerVars

(***************************************************************************)
(* AntigravityApiClient.discoverProjectId                                  *)
(***************************************************************************)
\* A call made while a discovery is in flight returns the stored promise.
DiscJoinsNever == FALSE
DiscJoins == projectIdPromise

\* A call made once an identifier is cached returns it.
MemoizedNever == FALSE
Memoized == projectId # NullProject

\* The response shapes that carry an identifier: a string, or an object
\* with an id.
AcceptedStringOnly(response) == response = "string"
Accepted(response) == response \in {"string", "object"}

\* discoverProjectId(), up to its first await, called by request r.
DiscoverCall(r) ==
    /\ did' = [did EXCEPT ![r] = @ \cup {"discover"}]
    /\ IF googleCloudProject # NullProject
       THEN /\ discRes' = [discRes EXCEPT ![r] = googleCloudProject]
            /\ pc' = [pc EXCEPT ![r] = "discReady"]
            /\ served' = [served EXCEPT ![r] = "configured"]
            /\ UNCHANGED <<projectIdPromise, disc, discInFlight>>
       ELSE IF Memoized
       THEN /\ discRes' = [discRes EXCEPT ![r] = projectId]
            /\ pc' = [pc EXCEPT ![r] = "discReady"]
            /\ served' = [served EXCEPT ![r] = "cached"]
            /\ UNCHANGED <<projectIdPromise, disc, discInFlight>>
       ELSE IF DiscJoins
       THEN /\ pc' = [pc EXCEPT ![r] = "discWait"]
            /\ served' = [served EXCEPT ![r] = "joined"]
            /\ UNCHANGED <<discRes, projectIdPromise, disc, discInFlight>>
       ELSE /\ pc' = [pc EXCEPT ![r] = "discWait"]
            /\ served' = [served EXCEPT ![r] = "started"]
            /\ projectIdPromise' = TRUE
            /\ disc' = StartedDisc
            /\ discInFlight' = discInFlight + 1
            /\ UNCHANGED discRes
    /\ UNCHANGED <<projectId, currentEndpointIndex, googleCloudProject, authCred>>

\* The discovery settles with `result`; `cache` tells whether the operation
\* stored it in projectId.  Its finally clears projectIdPromise.
DiscSettle(result, cache) ==
    /\ projectIdPromise' = FALSE
    /\ disc' = IdleDisc
    /\ discInFlight' = discInFlight - 1
    /\ projectId' = IF cache THEN result ELSE projectId
    /\ pc' = [c \in Callers |-> IF pc[c] = "discWait" THEN "discReady" ELSE pc[c]]
    /\ discRes' = [c \in Callers |-> IF pc[c] = "discWait" THEN result ELSE discRes[c]]

\* await authClient.getAccessToken() inside the discovery; with a token the
\* first loadCodeAssist call is issued, which `first` will answer.
DiscToken(outcome, first) ==
    /\ disc.phase = "token"
    /\ IF outcome = "token"
       THEN /\ disc' = [phase |-> "fetch", k |-> 1, cred |-> authCred, resp |-> first]
            /\ UNCHANGED <<projectIdPromise, discInFlight, projectId, pc, discRes>>
       ELSE DiscSettle(DefaultProjectId, FALSE)
    /\ UNCHANGED <<rotatorVars, envVars, rotRes, histVars, currentEndpointIndex,
                   googleCloudProject, authCred, mode, premium, stack, reqProject,
                   evWrite, res, delivered, fetches, lastObs, thrown, did, served>>
    /\ UNCHANGED layerVars

\* The answer of LoadEndpoints[k]:loadCodeAssist arrives: an accepted shape
\* ends the discovery, anything else moves on to the next endpoint (which
\* `next` will answer) or, after the last one, to the default.
DiscFetch(next) ==
    /\ disc.phase = "fetch"
    /\ IF Accepted(disc.resp)
       THEN DiscSettle(DiscoveredProject(disc.cred), TRUE)
       ELSE IF disc.k < Len(LoadEndpoints)
       THEN /\ disc' = [disc EXCEPT !.k = @ + 1, !.resp = next]
            /\ UNCHANGED <<projectIdPromise, discInFlight, projectId, pc, discRes>>
       ELSE DiscSettle(DefaultProjectId, TRUE)
    /\ UNCHANGED <<rotatorVars, envVars, rotRes, histVars, currentEndpointIndex,
                   googleCloudProject, authCred, mode, premium, stack, reqProject,
                   evWrite, res, delivered, fetches, lastObs, thrown, did, served>>
    /\ UNCHANGED layerVars

(***************************************************************************)
(* AntigravityApiClient.makeRequest / streamContent                        *)
(***************************************************************************)
EndpointsForAlwaysFallbacks(isPremium) == EndpointFallbacks
EndpointsFor(isPremium) == IF isPremium THEN EndpointFallbacks ELSE <<EndpointProd>>

\* The condition under which a non-2xx response is answered by a rotation.
RotationTriggeredOn429Only(status, retryCount) ==
    /\ status = 429
    /\ retryCount < getAccountCount
    /\ isRotationEnabled
RotationTriggered(status, retryCount) ==
    /\ status \in {429, 403, 504}
    /\ retryCount < getAccountCount
    /\ isRotationEnabled

\* The index at which the loop over the candidates starts.
FirstCandidate(recorded) == 0

Top(stk) == stk[Len(stk)]
Pop(stk) == SubSeq(stk, 1, Len(stk) - 1)
SetTop(stk, f) == [stk EXCEPT ![Len(stk)] = f]

\* The attempt a frame is making: the candidates chosen along the stack.
AttemptOf(stk) == [k \in 1..Len(stk) |-> stk[k].i]

NewFrame(retryCount, eps) ==
    LET first == FirstCandidate(currentEndpointIndex)
    IN [retryCount |-> retryCount, i |-> first, st |-> 0, endpoint |-> eps[first + 1]]

\* A 5xx (or a timeout) moves on to the next candidate when one remains.
MovesOn(status, i, n) == status >= 500 /\ i < n - 1

NextCandidate(f, eps) == [f EXCEPT !.i = @ + 1, !.st = 0, !.endpoint = eps[f.i + 2]]

\* The path of an error through the nested invocations.  The top frame of
\* stk holds a non-2xx response that is not (or no longer) answered by a
\* rotation: the catch around the rotation block swallowed whatever was
\* thrown inside it (a rotation failure, a reload failure, or any error of
\* the nested invocation), so the frame builds lastError from its own
\* response, moves on to the next candidate for a 5xx, and throws otherwise.
RECURSIVE ErrorPath(_, _, _)
ErrorPath(stk, err, eps) ==
    IF stk = <<>>
    THEN [stack |-> <<>>, raised |-> TRUE, err |-> err]
    ELSE LET f == Top(stk)
             lastError == ApiError(f.st, AttemptOf(stk), f.endpoint)
         IN IF MovesOn(f.st, f.i, Len(eps))
            THEN [stack |-> SetTop(stk, NextCandidate(f, eps)), raised |-> FALSE,
                  err |-> NoResult]
            ELSE ErrorPath(Pop(stk), lastError, eps)

\* The request continues as the error path says: next candidate, or failure.
FollowErrorPath(r, out) ==
    /\ stack' = [stack EXCEPT ![r] = out.stack]
    /\ pc' = [pc EXCEPT ![r] = IF out.raised THEN "done" ELSE "fetch"]
    /\ res' = [res EXCEPT ![r] = IF out.raised THEN out.err ELSE res[r]]

\* The top frame handles its own response as an error (no rotation, or the
\* rotation block was left without a retry).
HandleError(r) ==
    LET f == Top(stack[r])
        eps == EndpointsFor(premium[r])
    IN /\ FollowErrorPath(r, ErrorPath(stack[r], NoResult, eps))
       /\ thrown' = [thrown EXCEPT ![r] =
                        IF MovesOn(f.st, f.i, Len(eps)) THEN thrown[r]
                        ELSE ApiError(f.st, AttemptOf(stack[r]), f.endpoint)]

\* The top invocation throws err to its caller.
Throw(r, err) ==
    /\ FollowErrorPath(r, ErrorPath(Pop(stack[r]), err, EndpointsFor(premium[r])))
    /\ thrown' = [thrown EXCEPT ![r] = err]

\* POST /chat/completions: the router awaits discoverProjectId().
StartRequest(r, m, isPremium) ==
    /\ pc[r] = "idle"
    /\ mode' = [mode EXCEPT ![r] = m]
    /\ premium' = [premium EXCEPT ![r] = isPremium]
    /\ DiscoverCall(r)
    /\ UNCHANGED <<rotatorVars, envVars, rotRes, histVars, stack, reqProject,
                   evWrite, res, delivered, fetches, lastObs, thrown>>
    /\ UNCHANGED layerVars

\* discoverProjectId() resolved: the router maps the request and calls
\* streamContent(request, 0); a retry sets body.project and calls itself
\* with retryCount + 1.  The invocation runs up to getAccessToken().
Invoke(r) ==
    /\ pc[r] = "discReady"
    /\ reqProject' = [reqProject EXCEPT ![r] = discRes[r]]
    /\ LET retryCount == IF stack[r] = <<>> THEN 0 ELSE Top(stack[r]).retryCount + 1
       IN stack' = [stack EXCEPT ![r] =
                       Append(@, NewFrame(retryCount, EndpointsFor(premium[r])))]
    /\ pc' = [pc EXCEPT ![r] = "token"]
    /\ did' = [did EXCEPT ![r] = {}]
    /\ served' = [served EXCEPT ![r] = "none"]
    /\ UNCHANGED <<rotatorVars, envVars, rotRes, histVars, clientVars, mode, premium,
                   discRes, evWrite, res, delivered, fetches, lastObs, thrown, discInFlight>>
    /\ UNCHANGED layerVars

\* await authClient.getAccessToken(): a token, none (401), or a rejection.
TokenDone(r, outcome) ==
    /\ pc[r] = "token"
    /\ IF outcome = "token"
       THEN /\ pc' = [pc EXCEPT ![r] = "fetch"]
            /\ UNCHANGED <<stack, res, thrown>>
       ELSE Throw(r, IF outcome = "none" THEN ApiError(401, NoBody, "none")
                     ELSE OtherError)
    /\ UNCHANGED <<rotatorVars, envVars, rotRes, histVars, clientVars, mode, premium,
                   discRes, reqProject, evWrite, delivered, fetches, lastObs, did, discInFlight, served>>
    /\ UNCHANGED layerVars

\* await fetch(url): the candidate answered, timed out, or the fetch failed.
FetchDone(r, outcome) ==
    /\ pc[r] = "fetch"
    /\ fetches[r] < MaxFetches
    /\ fetches' = [fetches EXCEPT ![r] = @ + 1]
    /\ LET f == Top(stack[r])
           eps == EndpointsFor(premium[r])
           attempt == AttemptOf(stack[r])
       IN CASE outcome = 200 ->
                 \* response.ok: void incrementRequestCount(); record the index
                 /\ currentEndpointIndex' = f.i
                 /\ lastObs' = [lastObs EXCEPT ![r] = OkResult(attempt, f.endpoint)]
                 /\ IF mode[r] = "send"
                    THEN /\ pc' = [pc EXCEPT ![r] = "done"]
                         /\ res' = [res EXCEPT ![r] = OkResult(attempt, f.endpoint)]
                         /\ stack' = [stack EXCEPT ![r] = <<>>]
                    ELSE /\ pc' = [pc EXCEPT ![r] = "streaming"]
                         /\ UNCHANGED <<res, stack>>
                 /\ UNCHANGED thrown
            [] outcome = FetchTimeout ->
                 /\ IF f.i < Len(eps) - 1
                    THEN /\ stack' = [stack EXCEPT ![r] = SetTop(@, NextCandidate(f, eps))]
                         /\ UNCHANGED <<pc, res, thrown>>
                    ELSE Throw(r, ApiError(408, NoBody, f.endpoint))
                 /\ UNCHANGED <<currentEndpointIndex, lastObs>>
            [] outcome = FetchFailed ->
                 /\ Throw(r, OtherError)
                 /\ UNCHANGED <<currentEndpointIndex, lastObs>>
            [] OTHER ->
                 \* not ok: await response.text()
                 /\ stack' = [stack EXCEPT ![r] = SetTop(@, [f EXCEPT !.st = outcome])]
                 /\ lastObs' = [lastObs EXCEPT ![r] = ApiError(outcome, attempt, f.endpoint)]
                 /\ pc' = [pc EXCEPT ![r] = "text"]
                 /\ UNCHANGED <<currentEndpointIndex, res, thrown>>
    /\ UNCHANGED <<rotatorVars, envVars, rotRes, histVars, projectId, projectIdPromise,
                   googleCloudProject, authCred, disc, mode, premium, discRes,
                   reqProject, evWrite, delivered, did, discInFlight, served>>
    /\ UNCHANGED layerVars

\* response.text() resolved: rotate, or handle the response as an error.
TextDone(r) ==
    /\ pc[r] = "text"
    /\ LET f == Top(stack[r])
       IN IF RotationTriggered(f.st, f.retryCount)
          THEN /\ RotateCredentialsCall(r)
               /\ pc' = [pc EXCEPT ![r] = IF rotRes'[r].kind = "null" THEN "rotated"
                                          ELSE "rotWait"]
               /\ did' = [did EXCEPT ![r] = {"rotate"}]
               /\ UNCHANGED <<stack, res, thrown>>
          ELSE /\ HandleError(r)
               /\ UNCHANGED <<rotatorVars, rotRes, histVars, did>>
    /\ rotations' = [rotations EXCEPT ![r] =
                        IF RotationTriggered(Top(stack[r]).st, Top(stack[r]).retryCount)
                        THEN @ + 1 ELSE @]
    /\ UNCHANGED <<envVars, clientVars, mode, premium, discRes, reqProject, evWrite,
                   delivered, fetches, lastObs, discInFlight, served>>
    /\ UNCHANGED <<decoderVars, chunkVars, fallbackVars, watchVars, mapperVars, routeVars,
                   ledgerVars, sessionVars>>

\* rotateCredentials() settled: reload on a path; otherwise (null, or the
\* rejection caught by catch (rotationError)) the response is an error.
AfterRotate(r) ==
    /\ pc[r] = "rotated"
    /\ stack[r] # <<>>
    /\ IF rotRes[r].kind = "path"
       THEN /\ pc' = [pc EXCEPT ![r] = "reloadRead"]
            /\ UNCHANGED <<stack, res, thrown>>
       ELSE HandleError(r)
    /\ UNCHANGED <<rotatorVars, envVars, rotRes, histVars, clientVars, mode, premium,
                   discRes, reqProject, evWrite, delivered, fetches, lastObs, did, discInFlight, served>>
    /\ UNCHANGED layerVars

\* reloadCredentials: await fs.readFile(credentialPath); setCredentials;
\* projectId = null; then refreshAccessToken() is awaited.
ReloadRead(r, readable) ==
    /\ pc[r] = "reloadRead"
    /\ IF readable
       THEN /\ authCred' = canonical
            /\ projectId' = NullProject
            /\ pc' = [pc EXCEPT ![r] = "refresh"]
            /\ did' = [did EXCEPT ![r] = @ \cup {"reload", "refresh"}]
            /\ UNCHANGED <<stack, res, thrown>>
       ELSE /\ HandleError(r)
            /\ UNCHANGED <<authCred, projectId, did>>
    /\ UNCHANGED <<rotatorVars, envVars, rotRes, histVars, projectIdPromise,
                   currentEndpointIndex, googleCloudProject, disc, mode, premium,
                   discRes, reqProject, evWrite, delivered, fetches, lastObs, discInFlight, served>>
    /\ UNCHANGED layerVars

\* reloadCredentials: refreshAccessToken() settled.  On success the client
\* emits 'tokens' (the handler of setupAntigravityAuthentication starts) and
\* the refreshed credentials are written to the canonical file; on failure
\* reloadCredentials returns and discoverProjectId() is called.
RefreshDone(r, refreshed) ==
    /\ pc[r] = "refresh"
    /\ IF refreshed
       THEN /\ evWrite' = [evWrite EXCEPT ![r] = "mkdir"]
            /\ canonWriters' = canonWriters \cup {<<"reload", r>>}
            /\ pc' = [pc EXCEPT ![r] = "reloadWrite"]
            /\ UNCHANGED <<clientVars, discRes, did, discInFlight, served>>
       ELSE /\ DiscoverCall(r)
            /\ UNCHANGED <<evWrite, canonWriters>>
    /\ UNCHANGED <<rotatorVars, now, systemOffset, dirFiles, canonical, rotRes,
                   histVars, mode, premium, stack, reqProject, res, delivered, fetches,
                   lastObs, thrown>>
    /\ UNCHANGED layerVars

\* reloadCredentials: fs.writeFile(credentialPath, refreshed) done.
ReloadWriteDone(r) ==
    /\ pc[r] = "reloadWrite"
    /\ canonWriters' = canonWriters \ {<<"reload", r>>}
    /\ canonical' = authCred
    /\ pc' = [pc EXCEPT ![r] = "sourceWrite"]
    /\ UNCHANGED <<rotatorVars, now, systemOffset, dirFiles, rotRes, histVars,
                   clientVars, requestVars, obsVars>>
    /\ UNCHANGED layerVars

\* reloadCredentials: the source file was read and rewritten (failures are
\* logged); reloadCredentials returns and discoverProjectId() is called.
ReloadSourceDone(r) ==
    /\ pc[r] = "sourceWrite"
    /\ DiscoverCall(r)
    /\ UNCHANGED <<rotatorVars, envVars, rotRes, histVars, mode, premium, stack,
                   reqProject, evWrite, res, delivered, fetches, lastObs, thrown>>
    /\ UNCHANGED layerVars

\* The 'tokens' handler, cacheAntigravityCredentials: mkdir done, the write
\* to the canonical file begins.
TokensWriteStart(r) ==
    /\ evWrite[r] = "mkdir"
    /\ evWrite' = [evWrite EXCEPT ![r] = "writing"]
    /\ canonWriters' = canonWriters \cup {<<"tokens", r>>}
    /\ UNCHANGED <<rotatorVars, now, systemOffset, dirFiles, canonical, callerVars,
                   histVars, clientVars, mode, premium, stack, discRes, reqProject,
                   res, delivered, fetches, obsVars>>
    /\ UNCHANGED layerVars

TokensWriteDone(r) ==
    /\ evWrite[r] = "writing"
    /\ evWrite' = [evWrite EXCEPT ![r] = "none"]
    /\ canonWriters' = canonWriters \ {<<"tokens", r>>}
    /\ UNCHANGED <<rotatorVars, now, systemOffset, dirFiles, canonical, callerVars,
                   histVars, clientVars, mode, premium, stack, discRes, reqProject,
                   res, delivered, fetches, obsVars>>
    /\ UNCHANGED layerVars

\* What a failure of the body read does to the request.
StreamFailure(r) == Throw(r, OtherError)

\* streamContent: parseSSEStream yields an envelope and a delta chunk is
\* yielded, which uses up the client's firstChunk flag.
StreamEvent(r) ==
    /\ pc[r] = "streaming"
    /\ LET attempt == AttemptOf(stack[r])
       IN /\ Cardinality({k \in 1..Len(delivered[r]) : delivered[r][k] = attempt})
                < MaxEvents
          /\ delivered' = [delivered EXCEPT ![r] = Append(@, attempt)]
    /\ UNCHANGED <<rotatorVars, envVars, callerVars, histVars, clientVars, mode,
                   premium, stack, discRes, reqProject, evWrite, res, fetches,
                   obsVars>>
    /\ firstChunk' = FALSE
    /\ UNCHANGED <<decoderVars, lastThoughtSignature, resp, fallbackVars, watchVars,
                   mapperVars,
                   routeVars, ledgerVars, retryVars, sessionVars>>

\* streamContent: the body ended; the final chunk is yielded and every
\* nested generator returns.
StreamEnd(r) ==
    /\ pc[r] = "streaming"
    /\ pc' = [pc EXCEPT ![r] = "done"]
    /\ res' = [res EXCEPT ![r] = OkResult(AttemptOf(stack[r]), Top(stack[r]).endpoint)]
    /\ stack' = [stack EXCEPT ![r] = <<>>]
    /\ UNCHANGED <<rotatorVars, envVars, rotRes, histVars, clientVars, mode, premium,
                   discRes, reqProject, evWrite, delivered, fetches, obsVars>>
    /\ UNCHANGED layerVars

\* streamContent: reader.read() rejects (body timeout, connection reset).
StreamFail(r) ==
    /\ pc[r] = "streaming"
    /\ StreamFailure(r)
    /\ UNCHANGED <<rotatorVars, envVars, rotRes, histVars, clientVars, mode, premium,
                   discRes, reqProject, evWrite, delivered, fetches, lastObs, did, discInFlight, served>>
    /\ UNCHANGED layerVars

\* The caller has its response or its error; the request is over.
Finish(r) ==
    /\ pc[r] = "done"
    /\ pc' = [pc EXCEPT ![r] = "idle"]
    /\ res' = [res EXCEPT ![r] = NoResult]
    /\ delivered' = [delivered EXCEPT ![r] = <<>>]
    /\ fetches' = [fetches EXCEPT ![r] = 0]
    /\ lastObs' = [lastObs EXCEPT ![r] = NoResult]
    /\ thrown' = [thrown EXCEPT ![r] = NoResult]
    /\ did' = [did EXCEPT ![r] = {}]
    /\ rotRes' = [rotRes EXCEPT ![r] = NoOutcome]
    /\ discRes' = [discRes EXCEPT ![r] = NullProject]
    /\ reqProject' = [reqProject EXCEPT ![r] = NullProject]
    /\ rotations' = [rotations EXCEPT ![r] = 0]
    /\ UNCHANGED <<rotatorVars, envVars, histVars, clientVars, mode, premium, stack,
                   evWrite, discInFlight, served>>
    /\ UNCHANGED <<decoderVars, chunkVars, fallbackVars, watchVars, mapperVars, routeVars,
                   ledgerVars, sessionVars>>

(***************************************************************************)
(* The rotation manager on its own, driven by direct callers: once with an *)
(* explicit path list and the clock, once with a watched folder.           *)
(***************************************************************************)
RotationSteps ==
    \/ \E c \in Callers : CallRotate(c)
    \/ \E c \in Callers : RotateReturn(c)
    \/ \E content \in FileContents : RotValidate(content)
    \/ \E readable \in BOOLEAN : RotRead(readable)
    \/ RotWriteStart
    \/ RotWriteDone

NextRot ==
    \/ \E paths \in PathLists : Initialize(paths)
    \/ Tick
    \/ RotationSteps

SpecRot == Init /\ [][NextRot]_vars

NextFolder ==
    \/ \E listing \in SUBSET Files : InitializeWithFolder(listing)
    \/ \E f \in Files : FolderEvent(f)
    \/ DebounceFire
    \/ FolderRefresh
    \/ RotationSteps

InitFolder == Init /\ systemOffset = 0

SpecFolder == InitFolder /\ [][NextFolder]_vars

(***************************************************************************)
(* The client serving one request, with every outcome of every upstream    *)
(* call, in both modes and on both tiers.                                   *)
(***************************************************************************)
SoloRequests == {1}

RotationProgress ==
    \/ \E content \in FileContents : RotValidate(content)
    \/ \E readable \in BOOLEAN : RotRead(readable)
    \/ RotWriteStart
    \/ RotWriteDone

DiscoveryProgress ==
    \/ \E outcome \in TokenOutcomes, first \in DiscoveryResponses : DiscToken(outcome, first)
    \/ \E next \in DiscoveryResponses : DiscFetch(next)

RequestSteps(r, outcomes, tokens, reads) ==
    \/ Invoke(r)
    \/ \E outcome \in tokens : TokenDone(r, outcome)
    \/ \E outcome \in outcomes : FetchDone(r, outcome)
    \/ TextDone(r)
    \/ AfterRotate(r)
    \/ \E readable \in reads : ReloadRead(r, readable)
    \/ \E refreshed \in BOOLEAN : RefreshDone(r, refreshed)
    \/ ReloadWriteDone(r)
    \/ ReloadSourceDone(r)
    \/ TokensWriteStart(r)
    \/ TokensWriteDone(r)

StreamSteps(r) ==
    \/ StreamEvent(r)
    \/ StreamEnd(r)
    \/ StreamFail(r)

NextClient ==
    \/ \E paths \in PathLists : Initialize(paths)
    \/ RotationProgress
    \/ DiscoveryProgress
    \/ \E r \in SoloRequests :
          \/ \E m \in {"send", "stream"}, isPremium \in BOOLEAN : StartRequest(r, m, isPremium)
          \/ RequestSteps(r, FetchOutcomes, TokenOutcomes, BOOLEAN)
          \/ StreamSteps(r)

InitClient == Init /\ systemOffset = 0

SpecClient == InitClient /\ [][NextClient]_vars

(***************************************************************************)
(* A burst of concurrent requests to a standard-tier model that are        *)
(* answered 200 (the stream then completes) or 429, while discovery        *)
(* succeeds at its first endpoint.                                         *)
(***************************************************************************)
BurstOutcomes == {200, 429}

NextBurst ==
    \/ \E paths \in PathLists : Initialize(paths)
    \/ RotationProgress
    \/ DiscToken("token", "string")
    \/ DiscFetch("string")
    \/ \E r \in Callers :
          \/ StartRequest(r, "stream", FALSE)
          \/ RequestSteps(r, BurstOutcomes, {"token"}, {TRUE})
          \/ StreamEnd(r)

SpecBurst == InitClient /\ [][NextBurst]_vars

(***************************************************************************)
(* Premium-tier requests served one after the other by a client whose      *)
(* rotation manager was never configured; candidates answer 200 or 500.    *)
(***************************************************************************)
SeqOutcomes == {200, 500}

NextSeq ==
    \/ DiscoveryProgress
    \/ \E r \in SoloRequests :
          \/ \E m \in {"send", "stream"} : StartRequest(r, m, TRUE)
          \/ Invoke(r)
          \/ TokenDone(r, "token")
          \/ \E outcome \in SeqOutcomes : FetchDone(r, outcome)
          \/ TextDone(r)
          \/ StreamEvent(r)
          \/ StreamEnd(r)
          \/ Finish(r)

SpecSeq == InitClient /\ [][NextSeq]_vars

(***************************************************************************)
(* Claims.                                                                 *)
(***************************************************************************)
RotationIdle == rot.phase = "idle"

\* N rotations have completed one after the other, the first from index 0,
\* with no reset, no failure and no change of the pool in between.
FullCycleDone ==
    /\ RotationIdle
    /\ Len(credentialFilePaths) >= 2
    /\ Len(hist) = Len(credentialFilePaths)
    /\ hist[1].idxBefore = 0

\* C1: for a pool of N >= 2 valid credentials and no reset in between, N
\* consecutive completed rotate() calls starting at index 0 return paths[1],
\* ..., paths[N-1], paths[0] in that order, leave the current path equal to
\* the original one, and set the exhaustion flag exactly once, on the call
\* whose new index wraps to 0.
C1_FullCycle ==
    FullCycleDone =>
        LET n == Len(credentialFilePaths)
        IN /\ \A k \in 1..n : hist[k].ret = credentialFilePaths[(k % n) + 1]
           /\ getCurrentAccountPath = credentialFilePaths[1]
           /\ \A k \in 1..n : hist[k].setExh <=> (k = n)

C1_Witness == FullCycleDone /\ currentIndex = 0 /\ allAccountsExhausted

\* A caller issues rotateCredentials() in this step.
CallsRotate(c) == pc[c] \in {"idle", "text"} /\ pc'[c] \in {"rotWait", "rotated"}

\* The rotation in flight settles in this step.
Settles == rot.phase # "idle" /\ rot'.phase = "idle"

SameOutcome ==
    \A c, d \in Callers :
        (pc[c] = "rotWait" /\ pc[d] = "rotWait") =>
            (pc'[c] = "rotated" /\ pc'[d] = "rotated" /\ rotRes'[c] = rotRes'[d]
             /\ rotRes'[c].kind \in {"path", "error"})

Succeeds == \E c \in Callers : pc[c] = "rotWait" /\ rotRes'[c].kind = "path"

C3_OneWriter == Cardinality(canonWriters) <= 1

\* C4: a 429, 403 or 504 is answered by a rotation exactly when
\* retryCount < account count and rotation is enabled; the retry that
\* follows a rotation comes after the rotation, the reload with its forced
\* refresh and a new discovery, has retryCount + 1 and starts at the first
\* candidate of the tier's endpoint list.  Once the rotation returned a path
\* and the canonical file was read back, nothing but that retry follows.
RotationInvoked(r) == pc[r] = "text" /\ pc'[r] \in {"rotWait", "rotated"}
Retries(r) == pc[r] = "discReady" /\ pc'[r] = "token" /\ stack[r] # <<>>
C4_RotationRetry ==
    [][\A r \in Callers :
          /\ pc[r] = "text" /\ pc'[r] # "text" =>
                (RotationInvoked(r) <=>
                    /\ Top(stack[r]).st \in {429, 403, 504}
                    /\ Top(stack[r]).retryCount < Len(credentialFilePaths)
                    /\ isEnabled /\ Len(credentialFilePaths) > 1)
          /\ pc'[r] \in {"rotWait", "rotated"} /\ pc[r] \notin {"rotWait", "rotated"} =>
                pc[r] = "text"
          /\ pc[r] = "rotated" /\ stack[r] # <<>> /\ rotRes[r].kind = "path" =>
                pc'[r] \in {"rotated", "reloadRead"}
          /\ pc[r] \in {"refresh", "reloadWrite", "sourceWrite", "discWait", "discReady"}
                /\ stack[r] # <<>> =>
                /\ Len(stack'[r]) >= Len(stack[r])
                /\ pc'[r] \in {"refresh", "reloadWrite", "sourceWrite", "discWait",
                                "discReady", "token"}
          /\ Retries(r) =>
                /\ did[r] = {"rotate", "reload", "refresh", "discover"}
                /\ Len(stack'[r]) = Len(stack[r]) + 1
                /\ Top(stack'[r]).retryCount = Top(stack[r]).retryCount + 1
                /\ Top(stack'[r]).i = 0
                /\ Top(stack'[r]).endpoint =
                      (IF premium[r] THEN EndpointFallbacks ELSE <<EndpointProd>>)[1]
                /\ reqProject'[r] = discRes[r]
      ]_vars

\* A 403 was answered by a rotation and the retry is under way, and the
\* retry's own 429 found the budget used up.
C4_Witness ==
    \E r \in Callers :
        /\ Len(stack[r]) = 3
        /\ stack[r][1].st = 403
        /\ Top(stack[r]).st = 429
        /\ Top(stack[r]).retryCount = Len(credentialFilePaths)

\* C5: the events delivered for one streaming response all come from one
\* upstream attempt.
C5_OneAttempt ==
    \A r \in Callers : \A j, k \in DOMAIN delivered[r] : delivered[r][j] = delivered[r][k]

\* C6: an api error raised to the caller of send/streamSend carries the
\* status, body and endpoint of the last upstream response observed
\* (no-token and timeout errors are not upstream responses).
C6_LastObserved ==
    \A r \in Callers :
        pc[r] = "done" /\ res[r].kind = "api" /\ res[r].status \notin {401, 408} =>
            res[r] = lastObs[r]

\* C7: a send/streamSend begins its attempts at the candidate whose index
\* was recorded by the last 2xx.
C7_StartsAtRecorded ==
    \A r \in Callers :
        pc[r] \in {"token", "fetch"} /\ fetches[r] = 0 /\ Len(stack[r]) = 1 =>
            Top(stack[r]).i = currentEndpointIndex

\* C8: within one invocation the candidates are tried in list order, each at
\* most once: a timeout, or a 5xx that is not answered by a rotation, moves
\* from candidate i to candidate i+1 when one remains and is raised when i
\* is the last one (as a 408 error for a timeout); premium models use the
\* three-endpoint list and standard models the production endpoint only.
TierList(r) == IF premium[r] THEN <<"daily", "autopush", "prod">> ELSE <<"prod">>
TimedOutStep(r) ==
    /\ pc[r] = "fetch" /\ fetches'[r] = fetches[r] + 1
    /\ \/ pc'[r] = "fetch" /\ Len(stack'[r]) = Len(stack[r])
       \/ Len(stack'[r]) < Len(stack[r]) /\ thrown'[r].status = 408
UnrotatedServerError(r) ==
    /\ pc[r] = "text" /\ pc'[r] \notin {"text", "rotWait", "rotated"}
    /\ Top(stack[r]).st >= 500
C8_CandidateOrder ==
    /\ [](\A r \in Callers : \A k \in DOMAIN stack[r] :
             /\ stack[r][k].i \in 0..(Len(TierList(r)) - 1)
             /\ stack[r][k].endpoint = TierList(r)[stack[r][k].i + 1])
    /\ [][\A r \in Callers :
             LET f == Top(stack[r])
                 last == Len(TierList(r)) - 1
             IN /\ \A k \in DOMAIN stack[r] \cap DOMAIN stack'[r] :
                      stack'[r][k].i \in {stack[r][k].i, stack[r][k].i + 1}
                /\ Len(stack'[r]) > Len(stack[r]) => Top(stack'[r]).i = 0
                /\ TimedOutStep(r) =>
                      IF f.i < last
                      THEN /\ Len(stack'[r]) = Len(stack[r])
                           /\ Top(stack'[r]).i = f.i + 1
                      ELSE /\ Len(stack'[r]) < Len(stack[r])
                           /\ thrown'[r] = ApiError(408, NoBody, f.endpoint)
                /\ UnrotatedServerError(r) =>
                      IF f.i < last
                      THEN /\ Len(stack'[r]) = Len(stack[r])
                           /\ pc'[r] = "fetch"
                           /\ Top(stack'[r]).i = f.i + 1
                      ELSE /\ Len(stack'[r]) < Len(stack[r])
                           /\ thrown'[r] = ApiError(f.st, AttemptOf(stack[r]), f.endpoint)
         ]_vars

\* A premium request went through the whole list (a 5xx, then timeouts) and
\* the timeout of the last candidate was raised to the caller.
C8_Witness ==
    \E r \in Callers :
        /\ pc[r] = "done" /\ premium[r]
        /\ res[r] = ApiError(408, NoBody, "prod")
        /\ lastObs[r].status = 500
        /\ fetches[r] = Len(EndpointFallbacks)

\* C9: when rotateCredentials() rejects, the request ends at once: no other
\* candidate and no other rotation is tried, and the caller receives the
\* error of the response that triggered the rotation.
C9_AbortsChain ==
    [][\A r \in Callers :
          (/\ pc[r] = "rotated" /\ pc'[r] # "rotated"
           /\ stack[r] # <<>>
           /\ rotRes[r].kind = "error") =>
              /\ pc'[r] = "done"
              /\ res'[r] = ApiError(Top(stack[r]).st, AttemptOf(stack[r]),
                                    Top(stack[r]).endpoint)
      ]_vars

\* C10: at most one discovery is in flight per client; a caller that arrives
\* while one is in flight starts none, and when the discovery settles every
\* waiting caller receives its one result.
Arrives(r) == pc[r] # "discWait" /\ pc'[r] = "discWait"
DiscoverySettles == discInFlight' < discInFlight
C10_SingleFlight ==
    /\ [](/\ discInFlight <= 1
          /\ \A r \in Callers : pc[r] = "discWait" => discInFlight = 1)
    /\ [][/\ \A r \in Callers :
                Arrives(r) /\ discInFlight = 1 =>
                    /\ discInFlight' = 1
                    /\ disc' = disc
          /\ DiscoverySettles =>
                \E result \in {DefaultProjectId, DiscoveredProject(disc.cred)} :
                    \A r \in Callers :
                        pc[r] = "discWait" =>
                            pc'[r] = "discReady" /\ discRes'[r] = result
      ]_vars

\* Every request of the burst waits for the one discovery in flight.
C10_Witness ==
    /\ \A r \in Callers : pc[r] = "discWait"
    /\ discInFlight = 1
    /\ disc.phase = "fetch"

\* C11 as stated: every discovery that settles leaves its result cached, a
\* call made while an identifier is cached returns it without starting or
\* joining a discovery, and only the reload after a rotation clears the cache.
CallsDiscover(r) == served[r] = "none" /\ served'[r] # "none"
WaitersReceive(result) ==
    \A r \in Callers : pc[r] = "discWait" => discRes'[r] = result
CachedCallReturnsCache ==
    \A r \in Callers :
        CallsDiscover(r) /\ googleCloudProject = NullProject /\ projectId # NullProject =>
            /\ served'[r] = "cached"
            /\ pc'[r] = "discReady"
            /\ discRes'[r] = projectId
            /\ discInFlight' = discInFlight
            /\ disc' = disc
            /\ projectId' = projectId
OnlyReloadClearsCache ==
    projectId # NullProject /\ projectId' # projectId =>
        /\ projectId' = NullProject
        /\ \E r \in Callers : pc[r] = "reloadRead" /\ pc'[r] = "refresh"
C11_Original ==
    [][/\ DiscoverySettles => projectId' # NullProject /\ WaitersReceive(projectId')
       /\ CachedCallReturnsCache
       /\ OnlyReloadClearsCache
      ]_vars

\* C11: a discovery that settles after its loadCodeAssist calls (with a
\* discovered identifier, or with the default once every endpoint failed)
\* leaves its result cached; one that settles for want of an access token
\* resolves to the default and caches nothing.  A call made while an
\* identifier is cached returns it without starting or joining a discovery,
\* and only the reload after a rotation clears the cache.
C11_Memoized ==
    [][/\ DiscoverySettles =>
             IF disc.phase = "fetch"
             THEN projectId' # NullProject /\ WaitersReceive(projectId')
             ELSE projectId' = projectId /\ WaitersReceive(DefaultProjectId)
       /\ CachedCallReturnsCache
       /\ OnlyReloadClearsCache
      ]_vars

\* A request was answered from the cache, which holds the default.
C11_Witness ==
    \E r \in Callers :
        /\ pc[r] = "discReady"
        /\ served[r] = "cached"
        /\ discRes[r] = DefaultProjectId
        /\ discInFlight = 0

\* C12: the discovery asks the endpoints in their order; the first answer
\* with an accepted shape (a string, or an object with an id) ends it with
\* that identifier, any other answer moves on to the next endpoint, and
\* after the last endpoint, or without an access token, the result is the
\* default.  A waiting caller is only ever released with an identifier.
C12_NeverRaises ==
    [][/\ disc.phase = "fetch" /\ disc' # disc =>
             IF disc.resp \in {"string", "object"}
             THEN /\ DiscoverySettles
                  /\ projectId' = DiscoveredProject(disc.cred)
                  /\ WaitersReceive(DiscoveredProject(disc.cred))
             ELSE IF disc.k < Len(LoadEndpoints)
             THEN /\ ~DiscoverySettles
                  /\ disc'.phase = "fetch"
                  /\ disc'.k = disc.k + 1
                  /\ disc'.cred = disc.cred
             ELSE /\ DiscoverySettles
                  /\ projectId' = DefaultProjectId
                  /\ WaitersReceive(DefaultProjectId)
       /\ disc.phase = "token" /\ disc' # disc =>
             \/ ~DiscoverySettles /\ disc'.phase = "fetch" /\ disc'.k = 1
             \/ DiscoverySettles /\ WaitersReceive(DefaultProjectId)
       /\ \A r \in Callers :
             /\ pc[r] = "discWait" => pc'[r] \in {"discWait", "discReady"}
             /\ pc[r] # "discReady" /\ pc'[r] = "discReady" =>
                   discRes'[r] # NullProject
      ]_vars

\* A caller waited while every endpoint failed and received the default.
C12_Witness ==
    \E r \in Callers :
        /\ pc[r] = "discReady"
        /\ served[r] \in {"joined", "started"}
        /\ discRes[r] = DefaultProjectId
        /\ projectId = DefaultProjectId

(***************************************************************************)
(* parseSSEStream: the decoder of one response body.  Text is a sequence   *)
(* of one-character strings.                                               *)
(***************************************************************************)
MaxLines == 4

NL == "\n"
DataPrefix == <<"d", "a", "t", "a", ":", " ">>
DataOffset == 6
Whitespace == {" ", "\t", "\r", NL}
Digits == {"1", "2"}

\* The lines a response body is made of: a data line carrying one character
\* (a digit, or "x" which no JSON text contains), an empty line, and a line
\* of another SSE field.
LineKinds == {"1", "2", "x", "blank", "other"}
LineText(kind) ==
    IF kind = "blank" THEN <<>>
    ELSE IF kind = "other" THEN <<"e">>
    ELSE DataPrefix \o <<kind>>

RECURSIVE JoinLines(_)
JoinLines(ls) ==
    IF ls = <<>> THEN <<>>
    ELSE LineText(Head(ls)) \o <<NL>> \o JoinLines(Tail(ls))

\* The body: every line ends with a newline, the last one only if terminated.
PayloadOf(ls, terminated) ==
    LET text == JoinLines(ls)
    IN IF terminated \/ ls = <<>> THEN text ELSE SubSeq(text, 1, Len(text) - 1)

LineLists == UNION {[1..n -> LineKinds] : n \in 0..MaxLines}

\* buffer.split("\n")
RECURSIVE SplitLines(_)
SplitLines(text) ==
    IF \A i \in 1..Len(text) : text[i] # NL
    THEN <<text>>
    ELSE LET i == CHOOSE k \in 1..Len(text) :
                      /\ text[k] = NL
                      /\ \A j \in 1..(k - 1) : text[j] # NL
         IN <<SubSeq(text, 1, i - 1)>> \o SplitLines(SubSeq(text, i + 1, Len(text)))

\* line.trim() === ""
IsBlank(line) == \A i \in 1..Len(line) : line[i] \in Whitespace

\* line.startsWith("data: ")
StartsWithData(line) ==
    /\ Len(line) >= Len(DataPrefix)
    /\ SubSeq(line, 1, Len(DataPrefix)) = DataPrefix

\* JSON.parse succeeds: here the JSON texts are the digit strings.
JsonParses(text) ==
    /\ text # <<>>
    /\ \A i \in 1..Len(text) : text[i] \in Digits

\* if (objectBuffer) { try { yield JSON.parse(objectBuffer) } catch { log } }
Emit(d) ==
    IF d.objectBuffer # <<>> /\ JsonParses(d.objectBuffer)
    THEN [d EXCEPT !.out = Append(@, d.objectBuffer)]
    ELSE d

\* The body of the for loop over the complete lines.
ProcessLine(d, line) ==
    IF IsBlank(line)
    THEN IF d.objectBuffer # <<>>
         THEN [Emit(d) EXCEPT !.objectBuffer = <<>>]
         ELSE d
    ELSE IF StartsWithData(line)
    THEN [d EXCEPT !.objectBuffer = @ \o SubSeq(line, DataOffset + 1, Len(line))]
    ELSE d

RECURSIVE ProcessLines(_, _)
ProcessLines(d, ls) ==
    IF ls = <<>> THEN d ELSE ProcessLines(ProcessLine(d, Head(ls)), Tail(ls))

\* The partial last line is forgotten between reads.
FeedForgetsPartial(d, value) ==
    LET ls == SplitLines(d.buffer \o value)
    IN ProcessLines([d EXCEPT !.buffer = <<>>], SubSeq(ls, 1, Len(ls) - 1))

\* One iteration of the read loop with a chunk: buffer += value; split;
\* buffer = lines.pop() || ""; then the complete lines.
Feed(d, value) ==
    LET ls == SplitLines(d.buffer \o value)
    IN ProcessLines([d EXCEPT !.buffer = ls[Len(ls)]], SubSeq(ls, 1, Len(ls) - 1))

\* The iteration that reads done: the pending frame, if any, is parsed.
AtDone(d) == Emit(d)

\* Where a chunk boundary falls in the body.
CutsAt(text, p) ==
    IF p >= Len(text) THEN {}
    ELSE (IF text[p] \in {"d", "a", "t", ":"} THEN {"prefix"} ELSE {})
         \cup (IF text[p] = NL /\ text[p + 1] = NL THEN {"delimiter"} ELSE {})

\* fetch resolved with a body: the generator is created on it.
OpenBody(ls, terminated) ==
    /\ sse.phase = "idle"
    /\ sse' = [IdleSse EXCEPT !.phase = "reading", !.lines = ls,
                              !.terminated = terminated,
                              !.payload = PayloadOf(ls, terminated)]
    /\ UNCHANGED <<rotatorVars, envVars, callerVars, histVars, clientVars, requestVars,
                   obsVars, watchVars, mapperVars, routeVars, ledgerVars, retryVars, sessionVars,
                   chunkVars, fallbackVars>>

\* reader.read() resolves with the next n characters of the body.
ReadChunk(n) ==
    /\ sse.phase = "reading"
    /\ sse.pos + n <= Len(sse.payload)
    /\ sse' = [Feed(sse, SubSeq(sse.payload, sse.pos + 1, sse.pos + n))
                  EXCEPT !.pos = sse.pos + n,
                         !.cuts = @ \cup CutsAt(sse.payload, sse.pos + n)]
    /\ UNCHANGED <<rotatorVars, envVars, callerVars, histVars, clientVars, requestVars,
                   obsVars, watchVars, mapperVars, routeVars, ledgerVars, retryVars, sessionVars,
                   chunkVars, fallbackVars>>

\* reader.read() resolves with done.
ReadDone ==
    /\ sse.phase = "reading"
    /\ sse.pos = Len(sse.payload)
    /\ sse' = [AtDone(sse) EXCEPT !.phase = "done"]
    /\ UNCHANGED <<rotatorVars, envVars, callerVars, histVars, clientVars, requestVars,
                   obsVars, watchVars, mapperVars, routeVars, ledgerVars, retryVars, sessionVars,
                   chunkVars, fallbackVars>>

MaxChunkLen == MaxLines * (Len(DataPrefix) + 2)

NextSSE ==
    \/ \E ls \in LineLists, terminated \in BOOLEAN : OpenBody(ls, terminated)
    \/ \E n \in 1..MaxChunkLen : ReadChunk(n)
    \/ ReadDone

\* The layers below do not read the client's configuration.
InitLayer == InitClient /\ googleCloudProject = NullProject

SpecSSE == InitLayer /\ [][NextSSE]_vars

(***************************************************************************)
(* Claims about the decoder                                                *)
(***************************************************************************)
\* The envelopes the decoder emits when the whole body arrives in one chunk.
SingleDelivery(text) == AtDone(Feed(IdleSse, text)).out

\* C13: however the body is split into chunks (boundaries inside a line,
\* inside the data prefix, between the two newlines of a frame delimiter),
\* the sequence of envelopes emitted by the end of the stream equals the
\* sequence emitted when the body is delivered as a single chunk.
C13_ChunkInsensitive ==
    sse.phase = "done" => sse.out = SingleDelivery(sse.payload)

\* A body of two frames was delivered with one boundary inside a data prefix
\* and one between the newlines of a delimiter.
C13_Witness ==
    /\ sse.phase = "done"
    /\ sse.cuts = {"prefix", "delimiter"}
    /\ Len(sse.out) >= 2

\* The frames of a body, read off its lines: data lines accumulate, a blank
\* line ends the frame, the end of the body ends the last one; a frame is
\* an event when its data is a JSON text.
RECURSIVE FramesOf(_, _, _)
FramesOf(ls, pending, done) ==
    IF ls = <<>>
    THEN IF pending = <<>> THEN done ELSE Append(done, pending)
    ELSE IF Head(ls) = "blank"
    THEN FramesOf(Tail(ls), <<>>, IF pending = <<>> THEN done ELSE Append(done, pending))
    ELSE IF Head(ls) = "other"
    THEN FramesOf(Tail(ls), pending, done)
    ELSE FramesOf(Tail(ls), Append(pending, Head(ls)), done)

RECURSIVE WellFormed(_)
WellFormed(frames) ==
    IF frames = <<>> THEN <<>>
    ELSE IF JsonParses(Head(frames))
    THEN <<Head(frames)>> \o WellFormed(Tail(frames))
    ELSE WellFormed(Tail(frames))

ExpectedEvents(ls) == WellFormed(FramesOf(ls, <<>>, <<>>))

\* The frame still pending when the body ends (no blank line after it).
RECURSIVE PendingFrame(_, _)
PendingFrame(ls, pending) ==
    IF ls = <<>> THEN pending
    ELSE IF Head(ls) = "blank" THEN PendingFrame(Tail(ls), <<>>)
    ELSE IF Head(ls) = "other" THEN PendingFrame(Tail(ls), pending)
    ELSE PendingFrame(Tail(ls), Append(pending, Head(ls)))

\* C14: when the stream ends while a frame is pending, that frame is parsed
\* and emitted as the final event, whether or not a newline follows the
\* last data line.
C14_PendingEmitted ==
    /\ sse.phase = "done"
    /\ PendingFrame(sse.lines, <<>>) # <<>>
    => sse.out = ExpectedEvents(sse.lines)

\* C15: a frame that does not parse is dropped and the stream goes on: the
\* events emitted are exactly the well-formed frames before and after it,
\* in order.
C15_MalformedDropped ==
    /\ sse.phase = "done"
    /\ \E i \in 1..Len(sse.lines) : sse.lines[i] = "x"
    => sse.out = ExpectedEvents(sse.lines)

(***************************************************************************)
(* streamContent: the chunks produced from the decoded envelopes of a      *)
(* response.  The client object is shared by the responses it streams.     *)
(***************************************************************************)
MaxChunks == 2
MaxParts == 3
MaxTokens == 2

TokenCounts == 0..MaxTokens
MetaCounts == TokenCounts \cup {Absent}

\* x ?? 0
OrZero(x) == IF x = Absent THEN 0 ELSE x

PartKinds == {"text", "thought", "functionCall", "functionResponse"}

\* createOpenAIChunk(delta, model, finishReason): finish_reason is null
\* unless given.
NoFinish == "null"
\* The delta of a part: reasoning for a thought, content for any other
\* text, tool_calls for a function call.
DeltaOf(kind) ==
    CASE kind = "thought" -> "reasoning"
      [] kind = "text" -> "content"
      [] kind = "functionCall" -> "tool_calls"
      [] OTHER -> "none"

\* `part` is the position in the response of the part the delta was built
\* from (it stands for the part's text or call), 0 for the empty delta.
DeltaChunk(role, kind, part) ==
    [role |-> role, delta |-> DeltaOf(kind), part |-> part,
     finish_reason |-> NoFinish, usage |-> NoUsage]

\* Every part yields a chunk.
YieldsAlways(kind) == TRUE
\* The parts that yield a chunk: a functionResponse part yields nothing.
Yields(kind) == kind # "functionResponse"

\* The finish reason of the final chunk.
FinishReason(toolCallId, signature) ==
    LET finishReason == IF toolCallId THEN "tool_calls" ELSE "stop"
    IN IF toolCallId /\ signature /\ finishReason = "stop"
       THEN "tool_calls"
       ELSE finishReason

\* The reasoning tokens are added to the completion count only.
FinalUsageKeepsTotal(usageData, reasoningTokens) ==
    IF ~usageData.reported THEN NoUsage
    ELSE IF reasoningTokens > 0
    THEN [usageData EXCEPT !.completion_tokens = @ + reasoningTokens]
    ELSE usageData

\* finalChunk.usage: usageData with the reasoning tokens folded in.
FinalUsage(usageData, reasoningTokens) ==
    IF ~usageData.reported THEN NoUsage
    ELSE IF reasoningTokens > 0
    THEN [usageData EXCEPT !.completion_tokens = @ + reasoningTokens,
                           !.total_tokens = @ + reasoningTokens]
    ELSE usageData

\* The response is ok and has a body: the locals of the loop are declared.
BeginStream(r) ==
    /\ resp[r].phase \in {"idle", "done"}
    /\ resp' = [resp EXCEPT ![r] = [IdleResp EXCEPT !.phase = "open"]]
    /\ UNCHANGED <<rotatorVars, envVars, callerVars, histVars, clientVars, requestVars,
                   obsVars, watchVars, mapperVars, routeVars, ledgerVars, retryVars, sessionVars,
                   decoderVars, firstChunk,
                   lastThoughtSignature,
                   fallbackVars>>

\* One part of a decoded envelope: a text, thought or functionCall part
\* yields a delta chunk, which carries the role when firstChunk is set; a
\* functionResponse part yields nothing; a thoughtSignature is remembered.
EmitPart(r, kind, signature) ==
    /\ resp[r].phase = "open"
    /\ Len(resp[r].chunks) < MaxChunks
    /\ Len(resp[r].arrived) < MaxParts
    /\ LET part == Len(resp[r].arrived) + 1
       IN IF ~Yields(kind)
          THEN /\ resp' = [resp EXCEPT ![r].arrived = Append(@, kind)]
               /\ UNCHANGED firstChunk
          ELSE /\ resp' = [resp EXCEPT
                             ![r].arrived = Append(@, kind),
                             ![r].chunks = Append(@, DeltaChunk(firstChunk, kind, part)),
                             ![r].queue = Append(@, DeltaChunk(firstChunk, kind, part)),
                             ![r].toolCallId = (@ \/ kind = "functionCall")]
               /\ firstChunk' = FALSE
    /\ lastThoughtSignature' =
           IF signature # NoSignature THEN signature ELSE lastThoughtSignature
    /\ lastReturned' =
           IF signature # NoSignature THEN [signature |-> signature, kind |-> kind]
           ELSE lastReturned
    /\ UNCHANGED outbound
    /\ UNCHANGED <<rotatorVars, envVars, callerVars, histVars, clientVars, requestVars,
                   obsVars, watchVars, mapperVars, routeVars, ledgerVars, retryVars,
                   decoderVars, fallbackVars>>

\* The envelope carries usageMetadata.
UsageUpdate(r, meta) ==
    /\ resp[r].phase = "open"
    /\ LET prompt_tokens == OrZero(meta.promptTokenCount)
           completion_tokens == OrZero(meta.candidatesTokenCount)
       IN resp' = [resp EXCEPT
                     ![r].reasoningTokens = OrZero(meta.thoughtsTokenCount),
                     ![r].usageData =
                         [reported |-> TRUE,
                          prompt_tokens |-> prompt_tokens,
                          completion_tokens |-> completion_tokens,
                          total_tokens |-> prompt_tokens + completion_tokens],
                     ![r].usageMetadata = meta]
    /\ UNCHANGED <<rotatorVars, envVars, callerVars, histVars, clientVars, requestVars,
                   obsVars, watchVars, mapperVars, routeVars, ledgerVars, retryVars, sessionVars,
                   decoderVars, firstChunk,
                   lastThoughtSignature,
                   fallbackVars>>

\* The decoder is exhausted: the final chunk is yielded.
EndStream(r) ==
    /\ resp[r].phase = "open"
    /\ LET finalChunk ==
               [role |-> FALSE, delta |-> "none", part |-> 0,
                finish_reason |-> FinishReason(resp[r].toolCallId,
                                               lastThoughtSignature # NoSignature),
                usage |-> FinalUsage(resp[r].usageData, resp[r].reasoningTokens)]
       IN resp' = [resp EXCEPT
                     ![r].phase = "done",
                     ![r].signatureAtEnd = (lastThoughtSignature # NoSignature),
                     ![r].chunks = Append(@, finalChunk),
                     ![r].queue = Append(@, finalChunk)]
    /\ UNCHANGED <<rotatorVars, envVars, callerVars, histVars, clientVars, requestVars,
                   obsVars, watchVars, mapperVars, routeVars, ledgerVars, retryVars, sessionVars,
                   decoderVars, firstChunk,
                   lastThoughtSignature,
                   fallbackVars>>

\* The route's loop: reader.read() takes the oldest chunk the pump wrote
\* into the TransformStream and res.write sends it.
Forward(r) ==
    /\ resp[r].queue # <<>>
    /\ resp' = [resp EXCEPT ![r].sent = Append(@, Head(resp[r].queue)),
                            ![r].queue = Tail(@)]
    /\ UNCHANGED <<rotatorVars, envVars, callerVars, histVars, clientVars, requestVars,
                   obsVars, watchVars, mapperVars, routeVars, ledgerVars, retryVars, sessionVars,
                   decoderVars, firstChunk, lastThoughtSignature, fallbackVars>>

\* The pump closed the writer and the queue is drained: reader.read() is
\* done, the route writes [DONE] and ends the response.
Close(r) ==
    /\ resp[r].phase = "done"
    /\ resp[r].queue = <<>>
    /\ resp' = [resp EXCEPT ![r].phase = "closed"]
    /\ UNCHANGED <<rotatorVars, envVars, callerVars, histVars, clientVars, requestVars,
                   obsVars, watchVars, mapperVars, routeVars, ledgerVars, retryVars, sessionVars,
                   decoderVars, firstChunk, lastThoughtSignature, fallbackVars>>

\* The responses one client streams, one after another or concurrently.
NextChunks ==
    \E r \in Callers :
        \/ BeginStream(r)
        \/ \E kind \in PartKinds, signature \in SignedOrNot :
              EmitPart(r, kind, signature)
        \/ EndStream(r)

SpecChunks == InitLayer /\ [][NextChunks]_vars

\* One response, with its usage updates.
NextTerminal ==
    \E r \in SoloRequests :
        \/ BeginStream(r)
        \/ \E kind \in PartKinds, signature \in SignedOrNot :
              EmitPart(r, kind, signature)
        \/ \E meta \in [promptTokenCount : MetaCounts, candidatesTokenCount : MetaCounts,
                        thoughtsTokenCount : MetaCounts] : UsageUpdate(r, meta)
        \/ EndStream(r)

SpecTerminal == InitLayer /\ [][NextTerminal]_vars

\* One response streamed to its caller through the route.
NextForward ==
    \E r \in SoloRequests :
        \/ BeginStream(r)
        \/ \E kind \in PartKinds, signature \in PartSignatures :
              EmitPart(r, kind, signature)
        \/ EndStream(r)
        \/ Forward(r)
        \/ Close(r)

SpecForward == InitLayer /\ [][NextForward]_vars

(***************************************************************************)
(* Claims about the chunks of a response                                   *)
(***************************************************************************)
\* The chunk that ends a finished response.
FinalChunk(r) == resp[r].chunks[Len(resp[r].chunks)]
\* The delta chunks of a response: its chunks without a finish reason.
DeltaIndices(r) ==
    {k \in 1..Len(resp[r].chunks) : resp[r].chunks[k].finish_reason = NoFinish}

\* C16: in every response a client streams, the first delta chunk carries
\* the assistant role and no later chunk of that response carries it.
C16_RoleOnFirstDelta ==
    \A r \in Callers :
        \A k \in 1..Len(resp[r].chunks) :
            resp[r].chunks[k].role <=> (k = 1 /\ k \in DeltaIndices(r))

\* C17: the final chunk of a completed stream has finish reason "tool_calls"
\* if a tool call was produced in the stream or a continuity token is
\* pending, and "stop" otherwise.
C17_FinishReason ==
    \A r \in Callers :
        resp[r].phase = "done" =>
            FinalChunk(r).finish_reason =
                IF resp[r].toolCallId \/ resp[r].signatureAtEnd
                THEN "tool_calls"
                ELSE "stop"

\* C18: the usage of the final chunk comes from the last usage update:
\* prompt_tokens is its prompt count, completion_tokens its candidates count
\* plus its reasoning count, total_tokens their sum; without any usage
\* update the final chunk carries no usage.
C18_TerminalUsage ==
    \A r \in Callers :
        resp[r].phase = "done" =>
            LET usage == FinalChunk(r).usage
                meta == resp[r].usageMetadata
            IN IF resp[r].usageData.reported
               THEN /\ usage.reported
                    /\ usage.prompt_tokens = OrZero(meta.promptTokenCount)
                    /\ usage.completion_tokens =
                           OrZero(meta.candidatesTokenCount)
                           + OrZero(meta.thoughtsTokenCount)
                    /\ usage.total_tokens =
                           usage.prompt_tokens + usage.completion_tokens
               ELSE usage = NoUsage

\* A response ended after a usage update that reported reasoning tokens.
C18_Witness ==
    \E r \in Callers :
        /\ resp[r].phase = "done"
        /\ resp[r].usageMetadata.thoughtsTokenCount = MaxTokens
        /\ resp[r].usageMetadata.candidatesTokenCount = 1
        /\ resp[r].usageMetadata.promptTokenCount = Absent
        /\ FinalChunk(r).usage.total_tokens = MaxTokens + 1

(***************************************************************************)
(* AutoModelSwitchingHelper: the fallback table and the cooldowns.         *)
(***************************************************************************)
\* getFallbackModel: a table lookup, null at the end of a chain and for a
\* model the table does not know.
getFallbackModel(model) ==
    CASE model = "gemini-2.5-pro" -> "gemini-2.5-flash"
      [] model = "gemini-2.5-flash" -> "gemini-2.5-flash-lite"
      [] OTHER -> NoModel

\* The entry of the model exists and has not expired.
InCooldown(state, model) == state[model].codes # {} /\ state[model].ttl > 0

\* The models in cooldown.
Cooled(state) == {m \in Models : InCooldown(state, m)}

\* isModelInCooldown: an expired entry is removed before the answer.
isModelInCooldown(state, model) ==
    [answer |-> InCooldown(state, model),
     state |-> IF InCooldown(state, model)
               THEN state
               ELSE [state EXCEPT ![model] = NoCooldown]]

\* An explicitly requested model is treated like any other.
shouldAttemptFallbackIgnoresExplicit(state, model, explicit) ==
    IF getFallbackModel(model) = NoModel
    THEN [answer |-> FALSE, state |-> state]
    ELSE LET q == isModelInCooldown(state, model)
         IN [answer |-> ~q.answer, state |-> q.state]

\* shouldAttemptFallback: never for an explicitly requested model, never
\* without a configured fallback, never for a model already in cooldown.
shouldAttemptFallback(state, model, explicit) ==
    IF explicit
    THEN [answer |-> FALSE, state |-> state]
    ELSE IF getFallbackModel(model) = NoModel
    THEN [answer |-> FALSE, state |-> state]
    ELSE LET q == isModelInCooldown(state, model)
         IN [answer |-> ~q.answer, state |-> q.state]

\* The walk takes one step only.
getBestAvailableModelOneStep(state, preferred) ==
    LET q == isModelInCooldown(state, preferred)
    IN IF q.answer /\ getFallbackModel(preferred) # NoModel
       THEN [result |-> getFallbackModel(preferred), state |-> q.state]
       ELSE [result |-> preferred, state |-> q.state]

\* getBestAvailableModel: walk the chain from preferred to the first model
\* not in cooldown; the last model reached if every one is in cooldown.
RECURSIVE getBestAvailableModel(_, _)
getBestAvailableModel(state, preferred) ==
    LET q == isModelInCooldown(state, preferred)
    IN IF q.answer /\ getFallbackModel(preferred) # NoModel
       THEN getBestAvailableModel(q.state, getFallbackModel(preferred))
       ELSE [result |-> preferred, state |-> q.state]

\* An entry that exists keeps its expiry.
addRateLimitedModelKeepsExpiry(state, model, code) ==
    [state EXCEPT ![model] = [codes |-> @.codes \cup {code},
                              ttl |-> IF @.codes = {} THEN CooldownTtl ELSE @.ttl]]

\* addRateLimitedModel: the entry is created, or extended by the code, and
\* lasts the fixed time from now.
addRateLimitedModel(state, model, code) ==
    [state EXCEPT ![model] = [codes |-> @.codes \cup {code}, ttl |-> CooldownTtl]]

AddRateLimitedModel(model, code) ==
    /\ cooldownState' = addRateLimitedModel(cooldownState, model, code)
    /\ sinceAdd' = [sinceAdd EXCEPT ![model] = 0]
    /\ fbRes' = [NoCall EXCEPT !.op = "add", !.model = model]
    /\ UNCHANGED fbCall
    /\ UNCHANGED <<rotatorVars, envVars, callerVars, histVars, clientVars, requestVars,
                   obsVars, watchVars, mapperVars, routeVars, ledgerVars, retryVars, sessionVars,
                   decoderVars, chunkVars>>

\* One tick of the clock passes.
Elapse ==
    /\ \E m \in Models : cooldownState[m].ttl > 0
    /\ cooldownState' = [m \in Models |->
                            [cooldownState[m] EXCEPT
                               !.ttl = IF @ > 0 THEN @ - 1 ELSE 0]]
    /\ sinceAdd' = [m \in Models |->
                       IF sinceAdd[m] < LongAgo THEN sinceAdd[m] + 1 ELSE sinceAdd[m]]
    /\ fbRes' = NoCall
    /\ UNCHANGED fbCall
    /\ UNCHANGED <<rotatorVars, envVars, callerVars, histVars, clientVars, requestVars,
                   obsVars, watchVars, mapperVars, routeVars, ledgerVars, retryVars, sessionVars,
                   decoderVars, chunkVars>>

IsModelInCooldownCall(model) ==
    /\ LET q == isModelInCooldown(cooldownState, model)
       IN /\ cooldownState' = q.state
          /\ fbRes' = [NoCall EXCEPT !.op = "isModelInCooldown", !.model = model,
                                     !.cooled = Cooled(cooldownState),
                                     !.answer = q.answer]
    /\ UNCHANGED <<sinceAdd, fbCall>>
    /\ UNCHANGED <<rotatorVars, envVars, callerVars, histVars, clientVars, requestVars,
                   obsVars, watchVars, mapperVars, routeVars, ledgerVars, retryVars, sessionVars,
                   decoderVars, chunkVars>>

ShouldAttemptFallbackCall(model, explicit) ==
    /\ LET q == shouldAttemptFallback(cooldownState, model, explicit)
       IN /\ cooldownState' = q.state
          /\ fbRes' = [NoCall EXCEPT !.op = "shouldAttemptFallback", !.model = model,
                                     !.explicit = explicit,
                                     !.cooled = Cooled(cooldownState),
                                     !.answer = q.answer]
    /\ UNCHANGED <<sinceAdd, fbCall>>
    /\ UNCHANGED <<rotatorVars, envVars, callerVars, histVars, clientVars, requestVars,
                   obsVars, watchVars, mapperVars, routeVars, ledgerVars, retryVars, sessionVars,
                   decoderVars, chunkVars>>

GetBestAvailableModelCall(preferred) ==
    /\ LET q == getBestAvailableModel(cooldownState, preferred)
       IN /\ cooldownState' = q.state
          /\ fbRes' = [NoCall EXCEPT !.op = "getBestAvailableModel",
                                     !.model = preferred,
                                     !.cooled = Cooled(cooldownState),
                                     !.result = q.result]
    /\ UNCHANGED <<sinceAdd, fbCall>>
    /\ UNCHANGED <<rotatorVars, envVars, callerVars, histVars, clientVars, requestVars,
                   obsVars, watchVars, mapperVars, routeVars, ledgerVars, retryVars, sessionVars,
                   decoderVars, chunkVars>>

NextFallback ==
    \/ \E m \in Models, code \in RateLimitCodes : AddRateLimitedModel(m, code)
    \/ Elapse
    \/ \E m \in Models : IsModelInCooldownCall(m)
    \/ \E m \in Models, explicit \in BOOLEAN : ShouldAttemptFallbackCall(m, explicit)
    \/ \E m \in Models : GetBestAvailableModelCall(m)

SpecFallback == InitLayer /\ [][NextFallback]_vars

(***************************************************************************)
(* Claims about the fallback helper                                        *)
(***************************************************************************)
\* C19: shouldAttemptFallback(model, explicit) is false whenever explicit is
\* true, in every cooldown state any sequence of operations reaches, and
\* also the answer a call returned; otherwise it is false for a model
\* without a configured fallback, false for a model in cooldown, and true
\* in every remaining case.
C19_ShouldAttemptFallback ==
    /\ \A m \in Models :
          /\ ~shouldAttemptFallback(cooldownState, m, TRUE).answer
          /\ shouldAttemptFallback(cooldownState, m, FALSE).answer
                <=> (getFallbackModel(m) # NoModel /\ m \notin Cooled(cooldownState))
    /\ fbRes.op = "shouldAttemptFallback" =>
          fbRes.answer <=> /\ ~fbRes.explicit
                           /\ getFallbackModel(fbRes.model) # NoModel
                           /\ fbRes.model \notin fbRes.cooled

\* An explicit request was refused although the model has a fallback and is
\* not in cooldown while another model is.
C19_Witness ==
    /\ fbRes.op = "shouldAttemptFallback"
    /\ fbRes.explicit
    /\ ~fbRes.answer
    /\ getFallbackModel(fbRes.model) # NoModel
    /\ fbRes.model \notin fbRes.cooled
    /\ fbRes.cooled # {}

\* The fallback chain of a model, the model first.
RECURSIVE ChainFrom(_)
ChainFrom(model) ==
    IF getFallbackModel(model) = NoModel
    THEN <<model>>
    ELSE <<model>> \o ChainFrom(getFallbackModel(model))

\* C20: getBestAvailableModel(preferred) returns preferred when it is not in
\* cooldown or has no chain entry; otherwise the first model along its chain
\* that is not in cooldown, and the last model of the chain when all of them
\* are in cooldown; the result is always on the chain of preferred.
C20_BestAvailable ==
    fbRes.op = "getBestAvailableModel" =>
        LET chain == ChainFrom(fbRes.model)
            free == {k \in 1..Len(chain) : chain[k] \notin fbRes.cooled}
        IN /\ \E k \in 1..Len(chain) : fbRes.result = chain[k]
           /\ fbRes.result =
                 IF fbRes.model \notin fbRes.cooled \/ Len(chain) = 1
                 THEN fbRes.model
                 ELSE IF free # {}
                 THEN chain[CHOOSE k \in free : \A j \in free : k <= j]
                 ELSE chain[Len(chain)]

\* The preferred model and its fallback were in cooldown and the walk ended
\* two steps down the chain.
C20_Witness ==
    /\ fbRes.op = "getBestAvailableModel"
    /\ fbRes.model = "gemini-2.5-pro"
    /\ {"gemini-2.5-pro", "gemini-2.5-flash"} \subseteq fbRes.cooled
    /\ fbRes.result = "gemini-2.5-flash-lite"

(***************************************************************************)
(* AutoModelSwitchingHelper: the fallback handlers.                        *)
(***************************************************************************)
\* createDowngradeNotification(from, to, code)
createDowngradeNotification(from, to, code) ==
    <<"<", code, "> You are downgraded from ", from, " to ", to,
      " because of rate limits">>

\* The cooldown is recorded for the fallback model.
HandlerCooldownOnFallback(state, model, code) ==
    addRateLimitedModel(state, getFallbackModel(model), code)

\* The cooldown the handler records before it retries.
HandlerCooldown(state, model, code) == addRateLimitedModel(state, model, code)

\* The handler goes on without a fallback model.
HandlerRaisesNever(model) == FALSE

\* "No fallback available for model X" is raised first of all.
HandlerRaises(model) == getFallbackModel(model) = NoModel

\* handleNonStreamingFallback / handleStreamingFallback is called for a
\* request that failed with a rate-limit status: without a fallback it
\* raises; otherwise it records the cooldown and calls retryFn with the
\* fallback model and the body patched to it.
HandleFallback(streaming, model, code) ==
    /\ fbCall.phase \in {"idle", "done"}
    /\ IF HandlerRaises(model)
       THEN /\ fbCall' = [NoHandler EXCEPT !.phase = "done", !.streaming = streaming,
                                           !.model = model, !.code = code,
                                           !.outcome = "No fallback available"]
            /\ UNCHANGED <<cooldownState, sinceAdd>>
       ELSE LET recorded == HandlerCooldown(cooldownState, model, code)
            IN /\ cooldownState' = recorded
               /\ sinceAdd' = [m \in Models |->
                                  IF recorded[m] # cooldownState[m]
                                  THEN 0 ELSE sinceAdd[m]]
               /\ fbCall' = [NoHandler EXCEPT
                               !.phase = "retrying", !.streaming = streaming,
                               !.model = model, !.code = code,
                               !.retries = 1,
                               !.retryModel = getFallbackModel(model),
                               !.bodyModel = getFallbackModel(model),
                               !.cooledAtRetry = InCooldown(recorded, model)]
    /\ fbRes' = NoCall
    /\ UNCHANGED <<rotatorVars, envVars, callerVars, histVars, clientVars, requestVars,
                   obsVars, watchVars, mapperVars, routeVars, ledgerVars, retryVars, sessionVars,
                   decoderVars, chunkVars>>

\* handleStreamingFallback: a chunk of the retried stream is forwarded.
RetryYields ==
    /\ fbCall.phase = "retrying"
    /\ fbCall.streaming
    /\ fbCall.forwarded < MaxChunks
    /\ fbCall' = [fbCall EXCEPT !.forwarded = @ + 1]
    /\ UNCHANGED <<cooldownState, fbRes, sinceAdd>>
    /\ UNCHANGED <<rotatorVars, envVars, callerVars, histVars, clientVars, requestVars,
                   obsVars, watchVars, mapperVars, routeVars, ledgerVars, retryVars, sessionVars,
                   decoderVars, chunkVars>>

\* retryFn settles: its result gets the notification (non-streaming), its
\* stream ends, or its error is propagated.
RetryReturns(ok) ==
    /\ fbCall.phase = "retrying"
    /\ fbCall' = [fbCall EXCEPT
                    !.phase = "done",
                    !.outcome = IF ok THEN "ok" ELSE "retry failed",
                    !.notification =
                        IF ok /\ ~fbCall.streaming
                        THEN createDowngradeNotification(fbCall.model,
                                 getFallbackModel(fbCall.model), fbCall.code)
                        ELSE NoNotification]
    /\ UNCHANGED <<cooldownState, fbRes, sinceAdd>>
    /\ UNCHANGED <<rotatorVars, envVars, callerVars, histVars, clientVars, requestVars,
                   obsVars, watchVars, mapperVars, routeVars, ledgerVars, retryVars, sessionVars,
                   decoderVars, chunkVars>>

NextDowngrade ==
    \/ \E streaming \in BOOLEAN, m \in Models, code \in RateLimitCodes :
          HandleFallback(streaming, m, code)
    \/ RetryYields
    \/ \E ok \in BOOLEAN : RetryReturns(ok)
    \/ Elapse

SpecDowngrade == InitLayer /\ [][NextDowngrade]_vars

(***************************************************************************)
(* Claims about the fallback handlers and the cooldowns                    *)
(***************************************************************************)
\* The handler went past the check for a configured fallback.
Retried == fbCall.phase \in {"retrying", "done"} /\ fbCall.retries > 0

\* retryFn was invoked exactly once, after the cooldown of the failing model
\* was recorded, with the fallback model and the body patched to it.
RetriedOnceWithFallback ==
    Retried =>
        /\ fbCall.retries = 1
        /\ fbCall.cooledAtRetry
        /\ fbCall.retryModel = getFallbackModel(fbCall.model)
        /\ fbCall.retryModel # NoModel
        /\ fbCall.bodyModel = fbCall.retryModel

\* The text of the downgrade notification of the call.
NotificationOfCall ==
    <<"<", fbCall.code, "> You are downgraded from ", fbCall.model, " to ",
      getFallbackModel(fbCall.model), " because of rate limits">>

\* C21 as stated: the result of either handler carries the downgrade
\* notification once the retry succeeded.
C21_Original ==
    fbCall.phase = "done" /\ fbCall.outcome = "ok" =>
        fbCall.notification = NotificationOfCall

\* C21: for a model with a configured fallback the handler first records the
\* cooldown of the failing model, then invokes retryFn exactly once with the
\* fallback model and the body patched to it; the non-streaming result
\* carries the downgrade notification for that code and model pair, the
\* streaming handler forwards the retried chunks and adds nothing; an error
\* of retryFn is propagated, and settling never touches the cooldowns.
C21_Downgrade ==
    [][/\ RetriedOnceWithFallback'
       /\ fbCall'.phase = "done" /\ fbCall'.outcome = "ok" =>
             fbCall'.notification =
                 IF fbCall'.streaming THEN NoNotification ELSE NotificationOfCall'
       /\ fbCall.phase = "retrying" /\ fbCall'.phase = "done" =>
             /\ cooldownState' = cooldownState
             /\ fbCall'.outcome \in {"ok", "retry failed"}
             /\ fbCall'.forwarded = fbCall.forwarded
       /\ fbCall.phase # "retrying" /\ fbCall'.phase = "retrying" =>
             /\ InCooldown(cooldownState', fbCall'.model)
             /\ fbCall'.code \in cooldownState'[fbCall'.model].codes
      ]_vars

\* A non-streaming retry for gemini-2.5-pro after a 429 succeeded and its
\* result carries the notification; the model is still in cooldown.
C21_Witness ==
    /\ fbCall.phase = "done"
    /\ ~fbCall.streaming
    /\ fbCall.model = "gemini-2.5-pro"
    /\ fbCall.outcome = "ok"
    /\ fbCall.notification =
          <<"<", 429, "> You are downgraded from ", "gemini-2.5-pro", " to ",
            "gemini-2.5-flash", " because of rate limits">>
    /\ InCooldown(cooldownState, "gemini-2.5-pro")

\* The call ended with "No fallback available for model X".
RaisedNoFallback == fbCall.outcome = "No fallback available"

CooldownLastsTtl ==
    \A m \in Models : InCooldown(cooldownState, m) <=> sinceAdd[m] < CooldownTtl

\* The query answers by the time since the last add and leaves no expired
\* entry of the model behind.
QueryAnswersAndPurges ==
    fbRes.op = "isModelInCooldown" =>
        /\ fbRes.answer <=> sinceAdd[fbRes.model] < CooldownTtl
        /\ ~fbRes.answer => cooldownState[fbRes.model] = NoCooldown

\* C23: addRateLimitedModel(m, code) puts m in cooldown; isModelInCooldown(m)
\* is true until the fixed time has elapsed and false afterwards, the query
\* purging the expired entry; adding again keeps the codes already seen,
\* adds the new one and keeps m in cooldown; a model never added is not in
\* cooldown, and adding m changes no other model's entry.
C23_CooldownLifetime ==
    [][/\ CooldownLastsTtl'
       /\ QueryAnswersAndPurges'
       /\ \A m \in Models, code \in RateLimitCodes :
             AddRateLimitedModel(m, code) =>
                /\ InCooldown(cooldownState', m)
                /\ code \in cooldownState'[m].codes
                /\ InCooldown(cooldownState, m) =>
                      cooldownState[m].codes \subseteq cooldownState'[m].codes
                /\ \A other \in Models \ {m} :
                      cooldownState'[other] = cooldownState[other]
      ]_vars

\* The cooldown of a model expired and a query purged its entry while
\* another model, added with both codes, is still in cooldown.
C23_Witness ==
    /\ fbRes.op = "isModelInCooldown"
    /\ ~fbRes.answer
    /\ fbRes.model \notin fbRes.cooled
    /\ cooldownState[fbRes.model] = NoCooldown
    /\ sinceAdd[fbRes.model] = CooldownTtl
    /\ \E other \in Models :
          /\ InCooldown(cooldownState, other)
          /\ cooldownState[other].codes = RateLimitCodes

(***************************************************************************)
(* Claims about the rotation manager: small pools, the daily reset, the    *)
(* watched folder                                                          *)
(***************************************************************************)
\* Caller c invokes rotateCredentials() in this step.
Invokes(c) == pc[c] = "idle" /\ pc'[c] # "idle"

LastResetDayConfigured == (lastResetTime + DefaultResetTimezoneOffset) \div HoursPerDay

\* The condition the reset is specified by: the hour in the configured
\* offset is the configured hour and the day there is not the last reset's.
ResetDue == CurrentHour = DefaultResetHour /\ CurrentDay # LastResetDayConfigured

\* C25: the time-based reset happens exactly when the hour in the configured
\* offset equals the configured hour and the calendar day differs from the
\* day of the last reset: the last-reset instant moves only then, and a
\* rotateCredentials() call that reaches shouldResetIndex() then restarts
\* from index 0 with the exhaustion flag cleared and the instant updated.
C25_TimeReset ==
    [][/\ lastResetTime' # lastResetTime => ResetDue
       /\ \A c \in Callers :
             Invokes(c) /\ isRotationEnabled /\ ResetDue =>
                /\ lastResetTime' = now
                /\ currentIndex' = IF JoinsInFlight THEN 0
                                   ELSE NextIndex(0, Len(credentialFilePaths))
                /\ JoinsInFlight => ~allAccountsExhausted'
      ]_vars

\* The watcher reports an added or removed credential file in this step.
Reported == folderWatcher /\ dirFiles' # dirFiles
\* The timer callback of handleFolderChange starts / gets its listing.
RecomputationStarts == refreshDebounceTimer /\ ~refreshDebounceTimer'
RecomputationEnds == refreshReading /\ ~refreshReading'

\* The watched folder with a single caller of rotateCredentials(); the
\* timers fire and readdir answers.
Operator == CHOOSE c \in Callers : TRUE

NextWatch ==
    \/ \E listing \in SUBSET Files : InitializeWithFolder(listing)
    \/ \E f \in Files : FolderEvent(f)
    \/ DebounceFire
    \/ FolderRefresh
    \/ CallRotate(Operator)
    \/ RotateReturn(Operator)
    \/ \E content \in FileContents : RotValidate(content)
    \/ \E readable \in BOOLEAN : RotRead(readable)
    \/ RotWriteStart
    \/ RotWriteDone

SpecWatch ==
    InitFolder /\ [][NextWatch]_vars /\ WF_vars(DebounceFire) /\ WF_vars(FolderRefresh)

ModelIds == {"claude-opus-4-5-thinking", "claude-sonnet-4-5-thinking",
             "claude-sonnet-4-5", "gemini-3-pro-thinking",
             "gemini-3-flash-thinking", "gemini-3-pro-high", "o-thinking"}
Words(modelId) ==
    CASE modelId = "claude-opus-4-5-thinking" -> {"opus", "thinking"}
      [] modelId = "claude-sonnet-4-5-thinking" -> {"sonnet", "thinking"}
      [] modelId = "claude-sonnet-4-5" -> {"sonnet"}
      [] modelId = "gemini-3-pro-thinking" -> {"gemini-3-pro", "thinking"}
      [] modelId = "gemini-3-flash-thinking" -> {"gemini-3-flash", "thinking"}
      [] modelId = "gemini-3-pro-high" -> {"gemini-3-pro"}
      [] OTHER -> {"thinking"}
Includes(modelId, word) == word \in Words(modelId)

\* request.model: a model id, with or without the ":antigravity" suffix.
RequestModels == [id : ModelIds, suffixed : BOOLEAN]
\* getAntigravityModelId: the suffix is removed.
getAntigravityModelId(model) == model.id

\* reasoning_effort / reasoning.effort: unset (or empty), one of the four
\* tiers, or some other string.
NoEffort == "unset"
Efforts == {NoEffort, "low", "medium", "high", "xhigh", "minimal"}

SafetyMargin == 8192
LowBudget == 8192
MediumBudget == 16384
HighBudget == 32768
XHighBudget == 65536
Budgets == {LowBudget, MediumBudget, HighBudget, XHighBudget}

\* max_tokens: 0 stands for unset (undefined and 0 are both falsy).
NoMaxTokens == 0
MaxTokensValues ==
    {NoMaxTokens, 1} \cup Budgets \cup { b - 1 : b \in Budgets }
        \cup { b + 1 : b \in Budgets } \cup { b + SafetyMargin : b \in Budgets }

Requests ==
    [model : RequestModels, reasoning_effort : Efforts, reasoning : Efforts,
     max_tokens : MaxTokensValues]

\* getThinkingBudget(modelId, request)
getThinkingBudget(modelId, request) ==
    LET effort == IF request.reasoning_effort # NoEffort
                  THEN request.reasoning_effort
                  ELSE request.reasoning
    IN CASE effort = "low" -> LowBudget
         [] effort = "medium" -> MediumBudget
         [] effort = "high" -> HighBudget
         [] effort = "xhigh" -> XHighBudget
         [] OTHER ->
              IF Includes(modelId, "opus") THEN HighBudget
              ELSE IF Includes(modelId, "sonnet") THEN MediumBudget
              ELSE IF Includes(modelId, "gemini-3-pro") THEN MediumBudget
              ELSE IF Includes(modelId, "gemini-3-flash") THEN LowBudget
              ELSE LowBudget

\* Only a limit below the budget is raised.
EnsuredLimitBelowOnly(maxOutputTokens, thinkingBudget) ==
    IF maxOutputTokens = NoMaxTokens \/ maxOutputTokens < thinkingBudget
    THEN thinkingBudget + SafetyMargin
    ELSE maxOutputTokens
\* "Ensure maxOutputTokens > thinkingBudget"
EnsuredLimit(maxOutputTokens, thinkingBudget) ==
    IF maxOutputTokens = NoMaxTokens \/ maxOutputTokens <= thinkingBudget
    THEN thinkingBudget + SafetyMargin
    ELSE maxOutputTokens

\* mapOpenAIToAntigravity: the generation config it builds.
generationConfig(request) ==
    LET modelId == getAntigravityModelId(request.model)
        isThinkingModel == Includes(modelId, "thinking")
        thinkingBudget == getThinkingBudget(modelId, request)
    IN [maxOutputTokens |-> IF isThinkingModel
                            THEN EnsuredLimit(request.max_tokens, thinkingBudget)
                            ELSE request.max_tokens,
        thinkingConfig |-> isThinkingModel,
        thinkingBudget |-> IF isThinkingModel THEN thinkingBudget ELSE 0]

\* Each run of the mapper model is one call of one of its functions.
MapperIdle == ~gen.called /\ ~schemaCall.called /\ ~nameCall.called

MapRequest(request) ==
    /\ MapperIdle
    /\ gen' = [called |-> TRUE, request |-> request,
               config |-> generationConfig(request)]
    /\ schemaCall' = NoSchemaCall
    /\ nameCall' = NoNameCall
    /\ UNCHANGED <<rotatorVars, envVars, callerVars, histVars, clientVars, requestVars,
                   obsVars, decoderVars, chunkVars, fallbackVars, watchVars, routeVars, ledgerVars, retryVars, sessionVars>>

\* A mapped request to a thinking model.
Thinking == gen.called /\ gen.config.thinkingConfig

\* C27 as stated: for a thinking model the output-token limit exceeds the
\* thinking budget by at least the safety margin, whatever the caller sent.
C27_Original ==
    Thinking => gen.config.maxOutputTokens - gen.config.thinkingBudget >= SafetyMargin

\* C27: for a thinking model the output-token limit exceeds the thinking
\* budget: it is the budget plus the safety margin when the caller gave no
\* max_tokens or one not above the budget, and the caller's max_tokens
\* otherwise.
C27_LimitAboveBudget ==
    Thinking =>
        LET limit == gen.config.maxOutputTokens
            budget == gen.config.thinkingBudget
            asked == gen.request.max_tokens
        IN /\ budget \in Budgets
           /\ limit > budget
           /\ limit = IF asked = NoMaxTokens \/ asked <= budget
                      THEN budget + SafetyMargin
                      ELSE asked

\* The caller's max_tokens is one above the budget of the effort it asked
\* for, and is kept.
C27_Witness ==
    /\ Thinking
    /\ gen.request.reasoning_effort = "high"
    /\ gen.request.max_tokens = HighBudget + 1
    /\ gen.config.maxOutputTokens = gen.request.max_tokens

(***************************************************************************)
(* transformSchema.  A JSON value is a scalar, an array (kids) or an       *)
(* object (keys and kids, in insertion order).                             *)
(***************************************************************************)
JScalar(s) == [tag |-> "scalar", s |-> s, keys |-> <<>>, kids |-> <<>>]
JArray(kids) == [tag |-> "array", s |-> "", keys |-> <<>>, kids |-> kids]
JObject(keys, kids) == [tag |-> "object", s |-> "", keys |-> keys, kids |-> kids]
EmptyObject == JObject(<<>>, <<>>)

\* result[key] = value: a key already present keeps its place.
Put(obj, key, value) ==
    IF \E i \in 1..Len(obj.keys) : obj.keys[i] = key
    THEN LET i == CHOOSE i \in 1..Len(obj.keys) : obj.keys[i] = key
         IN JObject(obj.keys, [obj.kids EXCEPT ![i] = value])
    ELSE JObject(Append(obj.keys, key), Append(obj.kids, value))

\* The keys Object.entries gives for the members of an array.
IndexKeys == <<"0", "1", "2">>

\* Object.entries(schema), for an object and for an array.
Entries(schema) ==
    IF schema.tag = "array"
    THEN [keys |-> SubSeq(IndexKeys, 1, Len(schema.kids)), kids |-> schema.kids]
    ELSE [keys |-> schema.keys, kids |-> schema.kids]

MetaKeys == {"$schema", "$id", "$ref", "$defs", "definitions", "default",
             "examples", "title"}
Combinators == {"anyOf", "allOf", "oneOf"}
SnakeCase(key) ==
    CASE key = "anyOf" -> "any_of"
      [] key = "allOf" -> "all_of"
      [] key = "oneOf" -> "one_of"
      [] OTHER -> key

RECURSIVE transformSchema(_)
RECURSIVE TransformEntries(_, _, _)
\* The loop of transformSchema over the entries from the i-th on.
TransformEntries(entries, i, result) ==
    IF i > Len(entries.keys) THEN result
    ELSE LET key == entries.keys[i]
             value == entries.kids[i]
             next ==
                IF key \in MetaKeys THEN result
                ELSE IF key = "const" THEN Put(result, "enum", JArray(<<value>>))
                ELSE IF key \in Combinators
                THEN Put(result, SnakeCase(key),
                         JArray([j \in 1..Len(value.kids) |->
                                    transformSchema(value.kids[j])]))
                ELSE IF value.tag = "object"
                THEN Put(result, key, transformSchema(value))
                ELSE IF value.tag = "array"
                THEN Put(result, key,
                         JArray([j \in 1..Len(value.kids) |->
                                    IF value.kids[j].tag # "scalar"
                                    THEN transformSchema(value.kids[j])
                                    ELSE value.kids[j]]))
                ELSE Put(result, key, value)
         IN TransformEntries(entries, i + 1, next)

transformSchema(schema) == TransformEntries(Entries(schema), 1, EmptyObject)

\* Schemas a caller may send.
Sx == JScalar("x")
TypeString == JObject(<<"type">>, <<JScalar("string")>>)
PlainValues ==
    {Sx,
     JArray(<<Sx, Sx>>),
     JArray(<<JArray(<<Sx>>)>>),
     JArray(<<JObject(<<"$defs", "oneOf">>, <<Sx, JArray(<<TypeString>>)>>)>>),
     JObject(<<"title", "type">>, <<Sx, Sx>>),
     JObject(<<"items">>, <<JObject(<<"const", "$ref", "examples">>, <<Sx, Sx, Sx>>)>>)}
CombinatorValues ==
    {JArray(<<TypeString>>),
     JArray(<<JObject(<<"const", "$id">>, <<Sx, Sx>>), TypeString>>),
     JArray(<<JObject(<<"allOf">>,
                      <<JArray(<<JObject(<<"definitions", "default">>, <<Sx, Sx>>)>>)>>)>>)}
ValuesFor(key) == IF key \in Combinators THEN CombinatorValues ELSE PlainValues
SchemaKeys ==
    MetaKeys \cup Combinators \cup {"const", "enum", "type", "properties", "items"}
PairKeys == {"$schema", "title", "const", "anyOf", "type", "enum"}
ExampleSchema ==
    JObject(<<"const", "anyOf", "$schema">>, <<Sx, JArray(<<TypeString>>), Sx>>)
Schemas ==
    UNION { { JObject(<<k>>, <<v>>) : v \in ValuesFor(k) } : k \in SchemaKeys }
    \cup UNION { { JObject(<<p[1], p[2]>>, <<v[1], v[2]>>) :
                      v \in ValuesFor(p[1]) \X ValuesFor(p[2]) } :
                 p \in { q \in PairKeys \X PairKeys : q[1] # q[2] } }
    \cup {ExampleSchema}

TransformSchemaCall(schema) ==
    /\ MapperIdle
    /\ schemaCall' = [called |-> TRUE, schema |-> schema,
                      result |-> transformSchema(schema)]
    /\ gen' = NoGen
    /\ nameCall' = NoNameCall
    /\ UNCHANGED <<rotatorVars, envVars, callerVars, histVars, clientVars, requestVars,
                   obsVars, decoderVars, chunkVars, fallbackVars, watchVars, routeVars, ledgerVars, retryVars, sessionVars>>

\* What the transform is to give: meta keys dropped, const v as enum [v],
\* the combinators in snake case, through nested objects and the members of
\* arrays, and everything else as it was.
RECURSIVE Normalized(_)
RECURSIVE NormalizedEntries(_, _, _)
NormalizedEntries(obj, i, result) ==
    IF i > Len(obj.keys) THEN result
    ELSE LET key == obj.keys[i]
             value == obj.kids[i]
             next ==
                IF key \in MetaKeys THEN result
                ELSE IF key = "const" THEN Put(result, "enum", JArray(<<value>>))
                ELSE Put(result, SnakeCase(key), Normalized(value))
         IN NormalizedEntries(obj, i + 1, next)

Normalized(value) ==
    CASE value.tag = "object" -> NormalizedEntries(value, 1, EmptyObject)
      [] value.tag = "array" ->
            JArray([j \in 1..Len(value.kids) |-> Normalized(value.kids[j])])
      [] OTHER -> value

\* C28: the transform drops the meta keys, rewrites const v to enum [v] and
\* renames anyOf/allOf/oneOf to any_of/all_of/one_of at every depth, through
\* nested objects and array members, and leaves every other key and value
\* unchanged.
C28_TransformSchema ==
    schemaCall.called => schemaCall.result = Normalized(schemaCall.schema)

(***************************************************************************)
(* sanitizeFunctionName.  A name is a sequence of characters; a character  *)
(* outside ASCII is written by its code point.                             *)
(***************************************************************************)
Letters == {"a", "Z"}
\* The characters the class of the last replace lists between ':' and '-'.
ListedBeyondAscii == {"U+00E2", "U+20AC", "U+201C"}
\* [a-zA-Z0-9_.:...-]: what the last replace keeps.
Kept == Letters \cup Digits \cup {"_", ".", ":", "-"} \cup ListedBeyondAscii
NameCap == 64

SanitizedUncapped(name) ==
    LET colons == [i \in 1..Len(name) |-> IF name[i] = "/" THEN ":" ELSE name[i]]
        started == IF Len(colons) > 0 /\ colons[1] \in Letters \cup {"_"}
                   THEN colons
                   ELSE <<"_">> \o colons
    IN [i \in 1..Len(started) |-> IF started[i] \in Kept THEN started[i] ELSE "_"]
\* sanitizeFunctionName(name)
sanitizeFunctionName(name) ==
    LET sanitized == SanitizedUncapped(name)
    IN IF Len(sanitized) > NameCap THEN SubSeq(sanitized, 1, NameCap) ELSE sanitized

\* Names a caller may send: a short head, then one character repeated.
NameChars == Letters \cup Digits \cup {"_", ".", ":", "-", "/", " ", "$", "U+20AC", "U+00E9"}
Heads == UNION { [1..n -> NameChars] : n \in 0..MaxPrefix }
LongName == 100
TailLengths == {0, NameCap - MaxPrefix, NameCap - 1, NameCap, LongName - MaxPrefix}
TailChars == {"a", "/", "U+00E9"}
Names == { h \o [i \in 1..n |-> ch] : h \in Heads, n \in TailLengths, ch \in TailChars }

SanitizeCall(name) ==
    /\ MapperIdle
    /\ nameCall' = [called |-> TRUE, name |-> name, result |-> sanitizeFunctionName(name)]
    /\ gen' = NoGen
    /\ schemaCall' = NoSchemaCall
    /\ UNCHANGED <<rotatorVars, envVars, callerVars, histVars, clientVars, requestVars,
                   obsVars, decoderVars, chunkVars, fallbackVars, watchVars, routeVars, ledgerVars, retryVars, sessionVars>>

NextMapper ==
    \/ \E request \in Requests : MapRequest(request)
    \/ \E schema \in Schemas : TransformSchemaCall(schema)
    \/ \E name \in Names : SanitizeCall(name)

SpecMapper == InitLayer /\ [][NextMapper]_vars

\* The upstream's identifier grammar: letters, digits, underscore, dot,
\* colon, dash.
Grammar == Letters \cup Digits \cup {"_", ".", ":", "-"}

\* What the claim says of the result: slashes as colons, an underscore put
\* in front when the first character is no letter or underscore, every
\* character outside the grammar as an underscore, cut to the cap.
Expected(name) ==
    LET colons == [i \in 1..Len(name) |-> IF name[i] = "/" THEN ":" ELSE name[i]]
        started == IF Len(colons) > 0 /\ colons[1] \in Letters \cup {"_"}
                   THEN colons
                   ELSE <<"_">> \o colons
        clean == [i \in 1..Len(started) |->
                     IF started[i] \in Grammar THEN started[i] ELSE "_"]
    IN SubSeq(clean, 1, IF Len(clean) > NameCap THEN NameCap ELSE Len(clean))

\* C29: for every name the result has at most 64 characters, starts with a
\* letter or underscore, holds only characters of the upstream's identifier
\* grammar, and is the name with '/' turned into ':', '_' put in front when
\* needed and every disallowed character replaced by '_'.
C29_Sanitized ==
    nameCall.called =>
        /\ Len(nameCall.result) <= NameCap
        /\ Len(nameCall.result) > 0
        /\ nameCall.result[1] \in Letters \cup {"_"}
        /\ \A i \in 1..Len(nameCall.result) : nameCall.result[i] \in Grammar
        /\ nameCall.result = Expected(nameCall.name)

(***************************************************************************)
(* The streaming route (paths.ts, POST /chat/completions with stream):     *)
(* a pump writes the client's chunks into a TransformStream and the route  *)
(* forwards them with res.write.  The route registers no listener for the  *)
(* caller's disconnect and passes no abort signal down, so the disconnect  *)
(* changes nothing in the pump or in the decoder below it.                 *)
(***************************************************************************)
\* The caller of a response that is being streamed goes away.
Disconnect ==
    /\ sse.phase = "reading"
    /\ ~departed
    /\ departed' = TRUE
    /\ UNCHANGED <<rotatorVars, envVars, callerVars, histVars, clientVars, requestVars,
                   obsVars, decoderVars, chunkVars, fallbackVars, watchVars, mapperVars,
                   ledgerVars, retryVars, sessionVars>>

NextRoute ==
    \/ \E ls \in LineLists, terminated \in BOOLEAN : OpenBody(ls, terminated)
    \/ \E n \in 1..MaxChunkLen : ReadChunk(n)
    \/ ReadDone
    \/ Disconnect

SpecRoute == InitLayer /\ [][NextRoute]_vars

\* C30: once the caller has disconnected from a response that is being
\* streamed, the upstream read is aborted and the decoder torn down: no
\* further upstream data is read or decoded for that response.
C30_AbortOnDisconnect ==
    [][departed => sse'.pos = sse.pos /\ sse'.out = sse.out]_vars

(***************************************************************************)
(* Claims about failed and joined rotations and about the rotator's        *)
(* invariants                                                              *)
(***************************************************************************)
\* What validateCredentialFile must refuse: a target that cannot be read or
\* parsed, or that has none of the four fields.
Unusable == { content \in FileContents : ~content.readable \/ content.fields = {} }

\* The rotation in flight ends at its validation in this step.
FailsValidation == rot.phase = "validate" /\ rot'.phase = "idle"

\* C32: an unreadable target, or one with none of the four fields, never
\* passes validation; a rotation that fails its validation rejects for every
\* caller awaiting it, leaves the canonical file untouched (no copy was
\* started) and leaves the index at the single step the rotation had taken.
C32_FailedRotation ==
    /\ [](rot.phase = "validate" =>
             \A content \in Unusable : ~validateCredentialFile(content))
    /\ [][FailsValidation =>
             /\ \A c \in Callers :
                   pc[c] = "rotWait" => pc'[c] = "rotated" /\ rotRes'[c] = ErrorOutcome
             /\ canonical' = canonical
             /\ canonWriters' = canonWriters
             /\ canonWriters = {}
             /\ currentIndex' = currentIndex
             /\ allAccountsExhausted' = allAccountsExhausted
             /\ ~rotationInProgress'
         ]_vars

\* Two callers shared a rotation whose target failed validation: both were
\* rejected, and the canonical file still holds what an earlier rotation
\* copied, which is not the record the index now points at.
C32_Witness ==
    /\ \A c \in Callers : pc[c] = "rotated" /\ rotRes[c] = ErrorOutcome
    /\ rot.phase = "idle"
    /\ canonical # NoPath
    /\ canonical # getCurrentAccountPath

\* C37: a rotateCredentials() call that arrives while a rotation is in
\* flight only joins it: the call changes neither the index, nor the
\* exhaustion flag, nor the last-reset instant, and so the path the rotation
\* resolves to is the path at the current index at that moment.
C37_JoinOnly ==
    [][/\ \A c \in Callers :
             Invokes(c) /\ isRotationEnabled /\ JoinsInFlight =>
                UNCHANGED <<currentIndex, allAccountsExhausted, lastResetTime>>
       /\ \A c \in Callers :
             pc[c] = "rotWait" /\ pc'[c] = "rotated" /\ rotRes'[c].kind = "path" =>
                rotRes'[c].path = credentialFilePaths'[currentIndex' + 1]
      ]_vars

\* C36: once the canonical file has been written (directory initialisation
\* or a first rotation), whenever no rotation and no other write of the file
\* is in flight it holds the credentials of the pool record at the current
\* index, the record getCurrentAccountPath() returns.
C36_CanonicalIsCurrent ==
    canonical # NoPath /\ rot.phase = "idle" /\ canonWriters = {} /\ ~refreshReading
        => canonical = getCurrentAccountPath

\* C40: with a non-empty pool the current index is always inside the pool,
\* whatever initialisations, rotations (failed or in flight), resets and
\* folder recomputations have happened; getCurrentAccountPath() then returns
\* a member of the pool, and null exactly when the rotator is disabled or
\* the pool is empty.
C40_IndexInPool ==
    /\ currentIndex >= 0
    /\ Len(credentialFilePaths) > 0 => currentIndex < Len(credentialFilePaths)
    /\ IF ~isEnabled \/ Len(credentialFilePaths) = 0
       THEN getCurrentAccountPath = NoPath
       ELSE getCurrentAccountPath \in Range(credentialFilePaths)

\* The folder lost a file while a rotation that had moved the index to the
\* last record was in flight, and the recomputation has replaced the pool.
C40_Witness ==
    /\ rot.phase # "idle"
    /\ rot.target \notin Range(credentialFilePaths)
    /\ Len(credentialFilePaths) = 1
    /\ burst.replaced
    /\ isEnabled

(***************************************************************************)
(* The request ledger: incrementRequestCount, started and not awaited by   *)
(* makeRequest and streamContent on every 2xx response.                    *)
(***************************************************************************)
\* accountId: the stem of the current account path, "default" without one.
AccountIdOf(path) == IF path \in Files THEN path ELSE NoPath

\* The catch block rethrows.
OnLedgerFailureRethrows(answer) == "error"
\* catch (error) { logger.warn(...) }: the caller's answer is what it was.
OnLedgerFailure(answer) == answer

\* counts after "if (counts.lastReset !== today) reset" and the increment.
Counted(counts, account, day) ==
    LET base == IF counts.lastReset # day THEN NoCounts ELSE counts.requests
    IN [lastReset |-> day, requests |-> [base EXCEPT ![account] = @ + 1]]

RECURSIVE Total(_, _)
Total(counts, accounts) ==
    IF accounts = {} THEN 0
    ELSE LET a == CHOOSE x \in accounts : TRUE
         IN counts[a] + Total(counts, accounts \ {a})

\* The 2xx responses so far.
Responses2xx == Total(tally.ok, Accounts)

\* fetch resolved with response.ok while `path` is the rotator's current
\* path: the increment starts and runs to its first await, the response is
\* returned.
Respond2xx(c, path) ==
    /\ answered[c] = "none"
    /\ inc[c].phase = "idle"
    /\ Responses2xx < MaxOk
    /\ answered' = [answered EXCEPT ![c] = "ok"]
    /\ tally' = [tally EXCEPT !.ok[AccountIdOf(path)] = @ + 1]
    /\ inc' = [inc EXCEPT ![c] =
                  IF ledger.state = "absent"
                  THEN LET fresh == Counted([lastReset |-> today, requests |-> NoCounts],
                                            AccountIdOf(path), today)
                       IN [phase |-> "write", account |-> AccountIdOf(path),
                           lastReset |-> fresh.lastReset, requests |-> fresh.requests]
                  ELSE [NoIncrement EXCEPT !.phase = "read",
                                           !.account = AccountIdOf(path)]]
    /\ UNCHANGED <<ledger, today>>
    /\ UNCHANGED <<rotatorVars, envVars, callerVars, histVars, clientVars, requestVars,
                   obsVars, decoderVars, chunkVars, fallbackVars, watchVars, mapperVars,
                   routeVars, retryVars, sessionVars>>

\* fs.readFile and JSON.parse: the file as it is now, or a failure.
LedgerRead(c, fails) ==
    /\ inc[c].phase = "read"
    /\ IF fails \/ ledger.state # "ok"
       THEN /\ inc' = [inc EXCEPT ![c].phase = "failed"]
            /\ answered' = [answered EXCEPT ![c] = OnLedgerFailure(@)]
            /\ tally' = [tally EXCEPT !.failed = TRUE]
       ELSE /\ LET counted == Counted(ledger, inc[c].account, today)
               IN inc' = [inc EXCEPT ![c].phase = "write",
                                     ![c].lastReset = counted.lastReset,
                                     ![c].requests = counted.requests]
            /\ UNCHANGED <<answered, tally>>
    /\ UNCHANGED <<ledger, today>>
    /\ UNCHANGED <<rotatorVars, envVars, callerVars, histVars, clientVars, requestVars,
                   obsVars, decoderVars, chunkVars, fallbackVars, watchVars, mapperVars,
                   routeVars, retryVars, sessionVars>>

\* fs.writeFile: done, or failed with the file untouched or damaged.
LedgerWrite(c, fails, damaged) ==
    /\ inc[c].phase = "write"
    /\ IF fails
       THEN /\ inc' = [inc EXCEPT ![c].phase = "failed"]
            /\ answered' = [answered EXCEPT ![c] = OnLedgerFailure(@)]
            /\ tally' = [tally EXCEPT !.failed = TRUE]
            /\ ledger' = IF damaged THEN CorruptLedger ELSE ledger
       ELSE /\ ~damaged
            /\ inc' = [inc EXCEPT ![c].phase = "done"]
            /\ ledger' = [state |-> "ok", lastReset |-> inc[c].lastReset,
                          requests |-> inc[c].requests]
            /\ UNCHANGED <<answered, tally>>
    /\ UNCHANGED today
    /\ UNCHANGED <<rotatorVars, envVars, callerVars, histVars, clientVars, requestVars,
                   obsVars, decoderVars, chunkVars, fallbackVars, watchVars, mapperVars,
                   routeVars, retryVars, sessionVars>>

\* The caller has its answer and the increment has ended: the next request.
NextRequest(c) ==
    /\ answered[c] # "none"
    /\ inc[c].phase \in {"done", "failed"}
    /\ answered' = [answered EXCEPT ![c] = "none"]
    /\ inc' = [inc EXCEPT ![c] = NoIncrement]
    /\ UNCHANGED <<ledger, today, tally>>
    /\ UNCHANGED <<rotatorVars, envVars, callerVars, histVars, clientVars, requestVars,
                   obsVars, decoderVars, chunkVars, fallbackVars, watchVars, mapperVars,
                   routeVars, retryVars, sessionVars>>

\* Midnight passes.
NextDay ==
    /\ today < MaxDays
    /\ today' = today + 1
    /\ tally' = [tally EXCEPT !.days = TRUE]
    /\ UNCHANGED <<ledger, inc, answered>>
    /\ UNCHANGED <<rotatorVars, envVars, callerVars, histVars, clientVars, requestVars,
                   obsVars, decoderVars, chunkVars, fallbackVars, watchVars, mapperVars,
                   routeVars, retryVars, sessionVars>>

NextLedger ==
    \/ \E c \in Callers, path \in Files \cup {NoPath} : Respond2xx(c, path)
    \/ \E c \in Callers, fails \in BOOLEAN : LedgerRead(c, fails)
    \/ \E c \in Callers, fails, damaged \in BOOLEAN : LedgerWrite(c, fails, damaged)
    \/ \E c \in Callers : NextRequest(c)
    \/ NextDay

SpecLedger == InitLayer /\ [][NextLedger]_vars

\* The increment of request c fails in this step / has read the file.
LedgerFails(c) == inc[c].phase # "failed" /\ inc'[c].phase = "failed"
LedgerCounted(c) == inc[c].phase = "read" /\ inc'[c].phase = "write"

\* C31: a failure to read, parse or write the ledger never fails the request
\* nor changes the response its caller got; and an increment that finds a
\* stored date other than today starts from empty counts, so that the file
\* it writes holds today's date and only the current request.
C31_LedgerNonFatal ==
    /\ [](\A c \in Callers : answered[c] \in {"none", "ok"})
    /\ [][\A c \in Callers :
             /\ LedgerFails(c) => answered[c] = "ok" /\ answered'[c] = "ok"
             /\ LedgerCounted(c) /\ ledger.lastReset # today =>
                   /\ inc'[c].lastReset = today
                   /\ inc'[c].requests = [NoCounts EXCEPT ![inc[c].account] = 1]
             /\ inc[c].phase = "write" /\ inc'[c].phase = "done" =>
                   /\ ledger'.lastReset = inc[c].lastReset
                   /\ ledger'.requests = inc[c].requests
         ]_vars

\* One request's increment failed while its caller has its response, and
\* the ledger was reset on the new day: it holds one request although three
\* got a 2xx response.
C31_Witness ==
    /\ \E c \in Callers : inc[c].phase = "failed" /\ answered[c] = "ok"
    /\ ledger.state = "ok"
    /\ today = MaxDays
    /\ ledger.lastReset = today
    /\ Responses2xx = MaxOk
    /\ \E a \in Accounts : ledger.requests = [NoCounts EXCEPT ![a] = 1]

\* C39: within one day and with no persistence failure, once every ledger
\* update has completed the count of each account equals the number of 2xx
\* responses obtained while that account was current.
C39_NoLostIncrement ==
    /\ ~tally.failed
    /\ ~tally.days
    /\ \A c \in Callers : inc[c].phase \in {"idle", "done"}
    => \A a \in Accounts :
          (IF ledger.state = "ok" THEN ledger.requests[a] ELSE 0) = tally.ok[a]

\* C33: during one send or streamSend rotateCredentials() is invoked at most
\* as many times as there are accounts, whatever the upstream answers and
\* whether or not the rotations succeed.
C33_RotationBudget == \A r \in Callers : rotations[r] <= getAccountCount

\* A discovery stores an identifier in the cache in this step.
CachesDiscovered == projectId' # projectId /\ projectId'[1] = "discovered"

\* C38: the context id a rotation-triggered retry places in its request was
\* discovered with the credentials the rotation installed, and no discovery
\* that obtained its token before the rotation stores its result in the
\* cache the rotation cleared.
C38_FreshContext ==
    [][/\ \A r \in Callers :
             Retries(r) /\ rotRes[r].kind = "path" /\ authCred = rotRes[r].path
                        /\ discRes[r][1] = "discovered"
             => reqProject'[r] = DiscoveredProject(authCred)
       /\ CachesDiscovered => projectId' = DiscoveredProject(authCred)
      ]_vars

\* The deltas the parts of a response call for, in the order of the parts.
RECURSIVE DeltasOf(_, _)
DeltasOf(arrived, k) ==
    IF k > Len(arrived) THEN <<>>
    ELSE IF arrived[k] = "functionResponse" THEN DeltasOf(arrived, k + 1)
    ELSE <<[delta |-> DeltaOf(arrived[k]), part |-> k]>> \o DeltasOf(arrived, k + 1)

\* C34: the caller of a stream that completed without error received one
\* delta chunk for each part that is not a tool-result acknowledgment, in
\* the order the parts arrived and each once, followed by one terminal
\* chunk, the last chunk and the only one with a finish reason.
C34_OrderedOnce ==
    \A r \in Callers :
        resp[r].phase = "closed" =>
            LET sent == resp[r].sent
                n == Len(sent)
            IN /\ n >= 1
               /\ sent[n].finish_reason # NoFinish
               /\ \A k \in 1..(n - 1) : sent[k].finish_reason = NoFinish
               /\ [k \in 1..(n - 1) |-> [delta |-> sent[k].delta, part |-> sent[k].part]]
                      = DeltasOf(resp[r].arrived, 1)

\* A text part, an acknowledgment and a function call arrived, and the
\* response was closed after two deltas and the terminal chunk.
C34_Witness ==
    \E r \in Callers :
        /\ resp[r].phase = "closed"
        /\ resp[r].arrived = <<"text", "functionResponse", "functionCall">>
        /\ Len(resp[r].sent) = MaxParts
        /\ resp[r].sent[2].delta = "tool_calls"

(***************************************************************************)
(* The continuity token: the route hands the client's lastThoughtSignature *)
(* to mapOpenAIToAntigravity, which puts it on the assistant parts.        *)
(***************************************************************************)
\* The reasoning part carries the token as it is.
ReasoningSignatureNoSentinel(token) == token
\* thoughtSignature: lastThoughtSignature || SKIP_THOUGHT_SIGNATURE
ReasoningSignature(token) ==
    IF token # NoSignature THEN token ELSE SkipThoughtSignature

\* mapAssistantMessageParts for an assistant message with or without
\* reasoning_content and tool_calls, called with the client's token.
MapAssistant(r, hasReasoning, hasToolCalls) ==
    /\ outbound[r].phase \in {"none", "sent"}
    /\ outbound' = [outbound EXCEPT ![r] =
           [phase |-> "mapped",
            reasoning |-> IF hasReasoning THEN ReasoningSignature(lastThoughtSignature)
                          ELSE "absent",
            toolCall |-> IF hasToolCalls THEN lastThoughtSignature ELSE "absent"]]
    /\ UNCHANGED lastReturned
    /\ UNCHANGED <<rotatorVars, envVars, callerVars, histVars, clientVars, requestVars,
                   obsVars, decoderVars, chunkVars, fallbackVars, watchVars, mapperVars,
                   routeVars, ledgerVars, retryVars>>

\* The route calls streamContent (or getCompletion) with the mapped request.
Dispatch(r) ==
    /\ outbound[r].phase = "mapped"
    /\ outbound' = [outbound EXCEPT ![r].phase = "sent"]
    /\ UNCHANGED lastReturned
    /\ UNCHANGED <<rotatorVars, envVars, callerVars, histVars, clientVars, requestVars,
                   obsVars, decoderVars, chunkVars, fallbackVars, watchVars, mapperVars,
                   routeVars, ledgerVars, retryVars>>

\* The responses of one client, and the requests mapped meanwhile.
NextSession ==
    \E r \in SoloRequests :
        \/ BeginStream(r)
        \/ \E kind \in PartKinds, signature \in PartSignatures :
              EmitPart(r, kind, signature)
        \/ EndStream(r)
        \/ \E hasReasoning, hasToolCalls \in BOOLEAN :
              MapAssistant(r, hasReasoning, hasToolCalls)
        \/ Dispatch(r)

SpecSession == InitLayer /\ [][NextSession]_vars

\* The route maps a request of caller r in this step.
Maps(r) == outbound[r].phase # "mapped" /\ outbound'[r].phase = "mapped"

====
